---- MODULE Spec2Model ----
(***************************************************************************)
(* Download hub (Bun + SQLite): the session/authentication gate of         *)
(* src/server.ts over the tables of src/db.ts.                             *)
(*                                                                         *)
(* Time is a clock of ticks (Date.now()); a UTC day is TicksPerDay ticks.  *)
(* Text that the code takes apart (titles, slugs) is a sequence of         *)
(* one-character strings; text it only stores or compares is a string.     *)
(* Timestamps are kept in the textual form the code stores them in.        *)
(***************************************************************************)
EXTENDS Integers, Sequences, FiniteSets, TLC

\* ---------------------------------------------------------------- bounds
MaxTime == 5          \* the clock stops advancing here
TicksPerDay == 3      \* length of a UTC day in clock ticks
BootTime == 1         \* Date.now() when the process starts
MaxSessions == 2      \* session ids that can be issued
MaxInflight == 1      \* requests suspended at an await point at once
MaxVideoId == 4       \* highest video id AUTOINCREMENT may hand out
MaxAssetId == 7       \* highest asset id AUTOINCREMENT may hand out

\* ------------------------------------------------------ program constants
SlugMaxLen == 64
CharT == 84           \* "T", the date/time separator of toISOString()
CharSpace == 32       \* " ", the date/time separator of datetime('now')

ADMIN_USERNAME == "creator"
DEFAULT_ADMIN_PASSWORD == "changeme"
SESSION_COOKIE == "sid"

\* ------------------------------------------------------------ JS numbers
\* Number(Bun.env.X ?? d): NaN, Infinity or the rational n/d (d > 0).
NaN == [k |-> "nan", n |-> 0, d |-> 1]
Infinity == [k |-> "inf", n |-> 1, d |-> 1]
Num(n, d) == [k |-> "num", n |-> n, d |-> d]

NumberIsNaN(x) == x.k = "nan"
\* x <= 0 and x < c in JS: false for NaN, false for Infinity.
LeqZero(x) == x.k = "num" /\ x.n <= 0
LessThanInt(x, c) == x.k = "num" /\ x.n < c * x.d

\* ----------------------------------------------------------------- text
Min(a, b) == IF a < b THEN a ELSE b

UpperChars == <<"A","B","C","D","E","F","G","H","I","J","K","L","M",
                "N","O","P","Q","R","S","T","U","V","W","X","Y","Z">>
LowerChars == <<"a","b","c","d","e","f","g","h","i","j","k","l","m",
                "n","o","p","q","r","s","t","u","v","w","x","y","z">>
DigitChars == <<"0","1","2","3","4","5","6","7","8","9">>

Range(s) == {s[i] : i \in DOMAIN s}

toLowerCaseChar(c) ==
    IF \E i \in DOMAIN UpperChars : UpperChars[i] = c
    THEN LowerChars[CHOOSE i \in DOMAIN UpperChars : UpperChars[i] = c]
    ELSE c

toLowerCase(s) == [i \in DOMAIN s |-> toLowerCaseChar(s[i])]

\* [a-z0-9]
IsSlugChar(c) == c \in Range(LowerChars) \cup Range(DigitChars)

\* .replace(/[^a-z0-9]+/g, "-"): every maximal run becomes one "-". The
\* positions that give a character are those of [a-z0-9] and the first of
\* each run of other characters (inRun: a run is already open at the start).
CollapseRuns(s, inRun) ==
    LET giving == {i \in DOMAIN s :
                     \/ IsSlugChar(s[i])
                     \/ IF i = 1 THEN ~inRun ELSE IsSlugChar(s[i - 1])}
        at == [n \in 1..Cardinality(giving) |->
                 CHOOSE i \in giving : Cardinality({j \in giving : j < i}) = n - 1]
    IN [n \in 1..Cardinality(giving) |-> IF IsSlugChar(s[at[n]]) THEN s[at[n]] ELSE "-"]

RECURSIVE DropLeading(_, _)
DropLeading(s, cs) ==
    IF s # <<>> /\ Head(s) \in cs THEN DropLeading(Tail(s), cs) ELSE s

RECURSIVE DropTrailing(_, _)
DropTrailing(s, cs) ==
    IF s # <<>> /\ s[Len(s)] \in cs
    THEN DropTrailing(SubSeq(s, 1, Len(s) - 1), cs) ELSE s

\* .replace(/^-+|-+$/g, "")
StripDashes(s) == DropTrailing(DropLeading(s, {"-"}), {"-"})

\* String.prototype.trim()
Whitespace == {" ", "\t", "\n", "\r"}
trim(s) == DropTrailing(DropLeading(s, Whitespace), Whitespace)

\* .slice(0, n)
slice0(s, n) == SubSeq(s, 1, Min(Len(s), n))

\* `video-${Date.now()}`
SlugFallback(t) == <<"v", "i", "d", "e", "o", "-", t>>

slugify(input, t) ==
    LET cut == slice0(StripDashes(CollapseRuns(toLowerCase(input), FALSE)), SlugMaxLen)
    IN IF cut = <<>> THEN SlugFallback(t) ELSE cut

\* ----------------------------------------------------------- timestamps
\* new Date(ms).toISOString(): "YYYY-MM-DDTHH:MM:SS.sssZ", as <<date, sep, time>>.
toISOString(ms) == <<ms \div TicksPerDay, CharT, ms % TicksPerDay>>

\* new Date(text).getTime()
DateParse(text) == text[1] * TicksPerDay + text[3]

\* SQLite datetime('now'): "YYYY-MM-DD HH:MM:SS", as <<date, sep, time>>.
SqliteDatetimeNow(t) == <<t \div TicksPerDay, CharSpace, t % TicksPerDay>>

\* SQLite compares TEXT bytewise (memcmp): the first differing position decides.
RECURSIVE TextLess(_, _)
TextLess(a, b) ==
    IF b = <<>> THEN FALSE
    ELSE IF a = <<>> THEN TRUE
    ELSE IF Head(a) # Head(b) THEN Head(a) < Head(b)
    ELSE TextLess(Tail(a), Tail(b))

\* ------------------------------------------------------------ passwords
\* Every text the model hands to pbkdf2Sync as a password or as a salt.
DigestInputs ==
    <<"", "changeme", "correct-horse-battery", "hunter2", "s1", "s2">>

\* pbkdf2Sync(password, salt, ...): the derived key, as bytes. A deterministic,
\* collision-free function of its two inputs, two bytes long.
Pbkdf2(password, salt) ==
    <<160 + (CHOOSE i \in DOMAIN DigestInputs : DigestInputs[i] = password),
      176 + (CHOOSE i \in DOMAIN DigestInputs : DigestInputs[i] = salt)>>

HexDigits == <<"0","1","2","3","4","5","6","7","8","9","a","b","c","d","e","f">>

\* buffer.toString("hex")
RECURSIVE toStringHex(_)
toStringHex(bytes) ==
    IF bytes = <<>> THEN <<>>
    ELSE <<HexDigits[(Head(bytes) \div 16) + 1], HexDigits[(Head(bytes) % 16) + 1]>>
         \o toStringHex(Tail(bytes))

\* The value of a hex digit of either case, -1 for any other character.
HexValue(c) ==
    LET l == toLowerCaseChar(c)
    IN IF \E i \in DOMAIN HexDigits : HexDigits[i] = l
       THEN (CHOOSE i \in DOMAIN HexDigits : HexDigits[i] = l) - 1
       ELSE -1

\* Buffer.from(text, "hex"): bytes are decoded pair by pair; decoding stops,
\* without an error, at the first pair that is not two hex digits, and a
\* single trailing character is dropped.
RECURSIVE BufferFromHex(_)
BufferFromHex(text) ==
    IF Len(text) < 2 \/ HexValue(text[1]) < 0 \/ HexValue(text[2]) < 0 THEN <<>>
    ELSE <<16 * HexValue(text[1]) + HexValue(text[2])>>
         \o BufferFromHex(SubSeq(text, 3, Len(text)))

\* pbkdf2Sync(...).toString("hex")
Pbkdf2Hex(password, salt) == toStringHex(Pbkdf2(password, salt))

derivePasswordHash(password, salt) ==
    [hash |-> Pbkdf2Hex(password, salt), salt |-> salt]

\* The try block never raises on text arguments: timingSafeEqual is reached
\* only with buffers of one length.
\* passwordsMatch accepting every password.
passwordsMatch_Always(password, hash, salt) == TRUE

passwordsMatch(password, hash, salt) ==
    LET candidate == Pbkdf2Hex(password, salt)
        candidateBuffer == BufferFromHex(candidate)
        storedBuffer == BufferFromHex(hash)
    IN IF Len(candidateBuffer) # Len(storedBuffer) THEN FALSE
       ELSE candidateBuffer = storedBuffer

\* ------------------------------------------------------------ the state
VARIABLES
    phase,        \* "boot" (module load), "serving" or "exited" (process.exit(1))
    cfg,          \* the environment: [port, ttlDays, minLen] as JS numbers
    now,          \* Date.now()
    admin_users,  \* table admin_users: username -> row
    sessions,     \* table sessions: id -> row
    nextSid,      \* the next crypto.randomUUID(), never one issued before
    videos,       \* table videos: id -> row
    assets,       \* table assets: id -> row
    nextVideoId,  \* AUTOINCREMENT of videos
    nextAssetId,  \* AUTOINCREMENT of assets
    pending,      \* requests suspended at an await point
    last          \* the response sent at the current instant, if any

vars == <<phase, cfg, now, admin_users, sessions, nextSid, videos, assets,
          nextVideoId, nextAssetId, pending, last>>

store == <<admin_users, sessions, nextSid, videos, assets, nextVideoId, nextAssetId>>
content == <<videos, assets, nextVideoId, nextAssetId>>

Remove(f, k) == [x \in DOMAIN f \ {k} |-> f[x]]

\* ---------------------------------------------------------- configuration
PORT == cfg.port
SESSION_TTL_DAYS == cfg.ttlDays
MIN_PASSWORD_LENGTH == cfg.minLen

\* Date.now() + SESSION_MAX_AGE * 1000, clipped to an integer time value by
\* new Date(): SESSION_MAX_AGE = SESSION_TTL_DAYS * 24 * 60 * 60 seconds.
ExpiryTime(t) == t + (SESSION_TTL_DAYS.n * TicksPerDay) \div SESSION_TTL_DAYS.d

ensureProductionConfig ==
    /\ ~(NumberIsNaN(PORT) \/ LeqZero(PORT))
    /\ ~(NumberIsNaN(SESSION_TTL_DAYS) \/ LeqZero(SESSION_TTL_DAYS))
    /\ ~(NumberIsNaN(MIN_PASSWORD_LENGTH) \/ LessThanInt(MIN_PASSWORD_LENGTH, 8))

\* ------------------------------------------------------- table admin_users
AdminRow(hash, salt, flag) ==
    [password_hash |-> hash, salt |-> salt, must_change_password |-> flag]

hasAdminUser(tbl, username) == username \in DOMAIN tbl

\* ensureAdminUser inserting must_change_password = 0.
ensureAdminUser_FlagClear(tbl, username, passwordHash, salt) ==
    IF hasAdminUser(tbl, username) THEN tbl
    ELSE tbl @@ (username :> AdminRow(passwordHash, salt, 0))

ensureAdminUser(tbl, username, passwordHash, salt) ==
    IF hasAdminUser(tbl, username) THEN tbl
    ELSE tbl @@ (username :> AdminRow(passwordHash, salt, 1))

\* updateAdminPassword whose ON CONFLICT clause leaves must_change_password.
updateAdminPassword_KeepsFlag(tbl, username, passwordHash, salt, forceRotate) ==
    [u \in DOMAIN tbl \cup {username} |->
        IF u = username
        THEN AdminRow(passwordHash, salt,
                      IF u \in DOMAIN tbl THEN tbl[u].must_change_password
                      ELSE IF forceRotate THEN 1 ELSE 0)
        ELSE tbl[u]]

updateAdminPassword(tbl, username, passwordHash, salt, forceRotate) ==
    [u \in DOMAIN tbl \cup {username} |->
        IF u = username
        THEN AdminRow(passwordHash, salt, IF forceRotate THEN 1 ELSE 0)
        ELSE tbl[u]]

listAdminUsers(tbl) == DOMAIN tbl

deleteAdminUser(tbl, username) == Remove(tbl, username)

adminMustChangePassword(tbl) ==
    hasAdminUser(tbl, ADMIN_USERNAME) /\ tbl[ADMIN_USERNAME].must_change_password # 0

\* The loop of initializeAdminUser over listAdminUsers().
RECURSIVE RemoveStaleAdmins(_, _)
RemoveStaleAdmins(tbl, allAdmins) ==
    IF allAdmins = {} THEN tbl
    ELSE LET oldAdmin == CHOOSE u \in allAdmins : TRUE
         IN RemoveStaleAdmins(
                IF oldAdmin # ADMIN_USERNAME THEN deleteAdminUser(tbl, oldAdmin) ELSE tbl,
                allAdmins \ {oldAdmin})

\* initializeAdminUser without its loop over listAdminUsers().
initializeAdminUser_NoCleanup(tbl0, salt) ==
    IF ~hasAdminUser(tbl0, ADMIN_USERNAME)
    THEN LET d == derivePasswordHash(DEFAULT_ADMIN_PASSWORD, salt)
         IN ensureAdminUser(tbl0, ADMIN_USERNAME, d.hash, d.salt)
    ELSE LET admin == tbl0[ADMIN_USERNAME]
         IN IF passwordsMatch(DEFAULT_ADMIN_PASSWORD, admin.password_hash, admin.salt)
               /\ admin.must_change_password = 0
            THEN updateAdminPassword(tbl0, ADMIN_USERNAME, admin.password_hash,
                                     admin.salt, TRUE)
            ELSE tbl0

\* salt: the randomBytes(16) drawn if a credential has to be created.
initializeAdminUser(tbl0, salt) ==
    LET tbl == RemoveStaleAdmins(tbl0, listAdminUsers(tbl0))
    IN IF ~hasAdminUser(tbl, ADMIN_USERNAME)
       THEN LET d == derivePasswordHash(DEFAULT_ADMIN_PASSWORD, salt)
            IN ensureAdminUser(tbl, ADMIN_USERNAME, d.hash, d.salt)
       ELSE LET admin == tbl[ADMIN_USERNAME]
                usingDefaultPassword ==
                    passwordsMatch(DEFAULT_ADMIN_PASSWORD, admin.password_hash, admin.salt)
            IN IF usingDefaultPassword /\ admin.must_change_password = 0
               THEN updateAdminPassword(tbl, ADMIN_USERNAME, admin.password_hash,
                                        admin.salt, TRUE)
               ELSE tbl

\* ---------------------------------------------------------- table sessions
SessionRow(createdAt, expiresAt) == [created_at |-> createdAt, expires_at |-> expiresAt]

\* createSession whose INSERT is never run.
createSession_NoInsert(tbl, id, expiresAt, t) == tbl

createSession(tbl, id, expiresAt, t) ==
    tbl @@ (id :> SessionRow(SqliteDatetimeNow(t), expiresAt))

\* deleteSession whose DELETE matches no row.
deleteSession_NoDelete(tbl, id) == tbl

deleteSession(tbl, id) == Remove(tbl, id)

\* findSession without its expiry test.
findSession_NoExpiryTest(tbl, id, t) ==
    [found |-> id \in DOMAIN tbl, tbl |-> tbl]

\* [found, tbl]: the row is tbl[id] when found; tbl is the table afterwards.
findSession(tbl, id, t) ==
    IF id \notin DOMAIN tbl THEN [found |-> FALSE, tbl |-> tbl]
    ELSE IF DateParse(tbl[id].expires_at) < t
         THEN [found |-> FALSE, tbl |-> deleteSession(tbl, id)]
         ELSE [found |-> TRUE, tbl |-> tbl]

\* DELETE FROM sessions, without the WHERE clause.
pruneSessions_NoWhere(tbl, t) == [id \in {} |-> tbl[id]]

\* DELETE FROM sessions WHERE expires_at < datetime('now')
pruneSessions(tbl, t) ==
    [id \in {i \in DOMAIN tbl : ~TextLess(tbl[i].expires_at, SqliteDatetimeNow(t))}
        |-> tbl[id]]

pruneSessionsSafely(tbl, t) == pruneSessions(tbl, t)

\* ------------------------------------------------- tables videos, assets
VideoRow(title, slug) == [title |-> title, slug |-> slug]

AssetRow(videoId, label, url, filename, body, sortOrder) ==
    [video_id |-> videoId, label |-> label, url |-> url, filename |-> filename,
     content |-> body, sort_order |-> sortOrder]

\* createVideo on a table whose slug column is not UNIQUE.
createVideo_NoUnique(tbl, nextId, title, slug) ==
    [ok |-> TRUE, videos |-> tbl @@ (nextId :> VideoRow(title, slug)), nextId |-> nextId + 1]

\* [ok, videos, nextId]: ok = FALSE when the INSERT raised (slug TEXT NOT NULL UNIQUE).
createVideo(tbl, nextId, title, slug) ==
    IF \E v \in DOMAIN tbl : tbl[v].slug = slug
    THEN [ok |-> FALSE, videos |-> tbl, nextId |-> nextId]
    ELSE [ok |-> TRUE, videos |-> tbl @@ (nextId :> VideoRow(title, slug)),
          nextId |-> nextId + 1]

\* UPDATE ... WHERE id = ?: no row, no change, no error.
updateVideo(tbl, id, title) ==
    [v \in DOMAIN tbl |-> IF v = id THEN [tbl[v] EXCEPT !.title = title] ELSE tbl[v]]

\* deleteVideo on tables without ON DELETE CASCADE and with foreign_keys off.
deleteVideo_NoCascade(vtbl, atbl, id) == [videos |-> Remove(vtbl, id), assets |-> atbl]

\* [videos, assets]: assets.video_id REFERENCES videos(id) ON DELETE CASCADE.
deleteVideo(vtbl, atbl, id) ==
    [videos |-> Remove(vtbl, id),
     assets |-> IF id \in DOMAIN vtbl
                THEN [a \in {x \in DOMAIN atbl : atbl[x].video_id # id} |-> atbl[a]]
                ELSE atbl]

\* [ok, assets, nextId]: ok = FALSE when the INSERT raised (foreign key).
createAsset(vtbl, atbl, nextId, videoId, label, url, filename, body, sortOrder) ==
    IF videoId \notin DOMAIN vtbl
    THEN [ok |-> FALSE, assets |-> atbl, nextId |-> nextId]
    ELSE [ok |-> TRUE,
          assets |-> atbl @@ (nextId :> AssetRow(videoId, label, url, filename, body, sortOrder)),
          nextId |-> nextId + 1]

\* DELETE FROM assets WHERE id <= ?
deleteAsset_UpTo(atbl, id) == [a \in {x \in DOMAIN atbl : x > id} |-> atbl[a]]

deleteAsset(atbl, id) == Remove(atbl, id)

\* The row of the asset id, NoAsset when there is none.
NoAsset == [content |-> <<>>, filename |-> <<>>]
getAssetById(atbl, id) == IF id \in DOMAIN atbl THEN atbl[id] ELSE NoAsset

\* ORDER BY: the ids as a list in the total order before, a set of pairs.
OrderBy(ids, before) ==
    [n \in 1..Cardinality(ids) |->
        CHOOSE i \in ids : Cardinality({j \in ids : <<j, i>> \in before}) = n - 1]

\* videos ORDER BY created_at DESC (ids grow with created_at), each with its
\* assets ORDER BY sort_order ASC, id ASC.
listVideosWithAssets(vtbl, atbl) ==
    LET newer == {x \in (DOMAIN vtbl) \X (DOMAIN vtbl) : x[1] > x[2]}
        earlier ==
            {x \in (DOMAIN atbl) \X (DOMAIN atbl) :
                \/ atbl[x[1]].sort_order < atbl[x[2]].sort_order
                \/ atbl[x[1]].sort_order = atbl[x[2]].sort_order /\ x[1] < x[2]}
        videoIds == OrderBy(DOMAIN vtbl, newer)
        assetIds == OrderBy(DOMAIN atbl, earlier)
        own(v) == SelectSeq(assetIds, LAMBDA a : atbl[a].video_id = v)
    IN [n \in DOMAIN videoIds |->
          LET v == videoIds[n]
              owned == own(v)
          IN [id |-> v, title |-> vtbl[v].title, slug |-> vtbl[v].slug,
              assets |-> [m \in DOMAIN owned |-> [id |-> owned[m]] @@ atbl[owned[m]]]]]

\* serializeVideosForApi keeping every field of an asset.
serializeVideosForApi_KeepsContent(list) == list

\* assets.map(({ content, ...rest }) => rest)
serializeVideosForApi(list) ==
    [n \in DOMAIN list |->
        [list[n] EXCEPT !.assets =
            [m \in DOMAIN list[n].assets |->
                [f \in DOMAIN list[n].assets[m] \ {"content"} |-> list[n].assets[m][f]]]]]

NoText == <<>>   \* NULL / undefined / "" of a text column or form field

defaultSeed == <<
    [title |-> <<"V","a","u","l","t","w","a","r","d","e","n"," ","S","e","l","f","-","H","o","s","t"," ","G","u","i","d","e">>,
     slug |-> <<"v","a","u","l","t","w","a","r","d","e","n">>,
     assets |-> << [label |-> <<"d","o","c","k","e","r","-","c","o","m","p","o","s","e",".","y","m","l">>, url |-> "https://example.com/vaultwarden/docker-compose.yml"],
                   [label |-> <<".","e","n","v"," ","s","a","m","p","l","e">>, url |-> "https://example.com/vaultwarden/.env"] >>],
    [title |-> <<"N","g","i","n","x"," ","P","r","o","x","y"," ","M","a","n","a","g","e","r"," ","S","e","t","u","p">>,
     slug |-> <<"n","p","m">>,
     assets |-> << [label |-> <<"d","o","c","k","e","r","-","c","o","m","p","o","s","e",".","y","m","l">>, url |-> "https://example.com/nginxproxymanager/docker-compose.yml"],
                   [label |-> <<"a","c","l",".","c","o","n","f">>, url |-> "https://example.com/nginxproxymanager/acl.conf"] >>],
    [title |-> <<"J","e","l","l","y","f","i","n"," ","M","e","d","i","a"," ","S","e","r","v","e","r">>,
     slug |-> <<"j","e","l","l","y","f","i","n">>,
     assets |-> << [label |-> <<"d","o","c","k","e","r","-","c","o","m","p","o","s","e",".","y","m","l">>, url |-> "https://example.com/jellyfin/docker-compose.yml"],
                   [label |-> <<"t","r","a","e","f","i","k",".","y","m","l">>, url |-> "https://example.com/jellyfin/traefik.yml"] >>] >>

\* The inner forEach of seedIfEmpty: the assets of one seeded video, from index i.
RECURSIVE SeedAssets(_, _, _, _, _)
SeedAssets(c, videoId, seedAssets, i, vtbl) ==
    IF i > Len(seedAssets) THEN c
    ELSE LET r == createAsset(vtbl, c.assets, c.nextAssetId, videoId,
                              seedAssets[i].label, seedAssets[i].url, NoText, NoText, i - 1)
         IN SeedAssets([c EXCEPT !.assets = r.assets, !.nextAssetId = r.nextId],
                       videoId, seedAssets, i + 1, vtbl)

\* The outer loop of seedIfEmpty, from seed i.
RECURSIVE SeedVideos(_, _)
SeedVideos(c, i) ==
    IF i > Len(defaultSeed) THEN c
    ELSE LET r == createVideo(c.videos, c.nextVideoId, defaultSeed[i].title, defaultSeed[i].slug)
             c1 == [c EXCEPT !.videos = r.videos, !.nextVideoId = r.nextId]
         IN SeedVideos(SeedAssets(c1, c.nextVideoId, defaultSeed[i].assets, 1, r.videos), i + 1)

\* c = [videos, assets, nextVideoId, nextAssetId]
seedIfEmpty(c) == IF Cardinality(DOMAIN c.videos) > 0 THEN c ELSE SeedVideos(c, 1)

EmptyTable == [x \in {} |-> x]

FreshContent ==
    [videos |-> EmptyTable, assets |-> EmptyTable, nextVideoId |-> 1, nextAssetId |-> 1]

\* ------------------------------------------------------------ filenames
\* .replace(/[set]+/g, rep) when atLeast = 1, .replace(/[set]{2,}/g, rep) when 2.
RECURSIVE ReplaceRuns(_, _, _, _)
ReplaceRuns(s, set, rep, atLeast) ==
    IF s = <<>> THEN <<>>
    ELSE IF Head(s) \notin set THEN <<Head(s)>> \o ReplaceRuns(Tail(s), set, rep, atLeast)
    ELSE LET rest == DropLeading(s, set)
             run == Len(s) - Len(rest)
         IN (IF run >= atLeast THEN rep ELSE SubSeq(s, 1, run))
            \o ReplaceRuns(rest, set, rep, atLeast)

MapChars(s, set, c) == [i \in DOMAIN s |-> IF s[i] \in set THEN c ELSE s[i]]

RECURSIVE RemoveChars(_, _)
RemoveChars(s, set) ==
    IF s = <<>> THEN <<>>
    ELSE (IF Head(s) \in set THEN <<>> ELSE <<Head(s)>>) \o RemoveChars(Tail(s), set)

includes(s, c) == \E i \in DOMAIN s : s[i] = c

DotTxt == <<".", "t", "x", "t">>

\* `asset-${n}.txt`
AssetFallback(n) == <<"a", "s", "s", "e", "t", "-", n>> \o DotTxt

sanitizeFilename(input, t) ==
    LET fallback == AssetFallback(t)
        trimmed == trim(ReplaceRuns(input, {"\r", "\n"}, <<" ">>, 1))
        withoutPath == MapChars(trimmed, {"\\", "/"}, "-")
        withoutIllegal == RemoveChars(withoutPath, {"<", ">", ":", "\"", "|", "?", "*"})
        collapsedWhitespace == ReplaceRuns(withoutIllegal, Whitespace, <<" ">>, 2)
        cut == slice0(collapsedWhitespace, 180)
    IN IF input = NoText THEN fallback
       ELSE IF trimmed = <<>> THEN fallback
       ELSE IF cut = <<>> THEN fallback ELSE cut

resolveFilename(label, provided, t) ==
    LET base == IF provided # NoText /\ Len(trim(provided)) > 0 THEN provided ELSE label
        withExtension == IF includes(base, ".") THEN base ELSE base \o DotTxt
    IN sanitizeFilename(withExtension, t)

\* .replace(/\r\n/g, "\n")
RECURSIVE normalizeSnippetContent(_)
normalizeSnippetContent(input) ==
    IF input = <<>> THEN <<>>
    ELSE IF Len(input) >= 2 /\ input[1] = "\r" /\ input[2] = "\n"
         THEN <<"\n">> \o normalizeSnippetContent(SubSeq(input, 3, Len(input)))
         ELSE <<Head(input)>> \o normalizeSnippetContent(Tail(input))

\* --------------------------------------------------------------- the gate
NoCookie == 0

\* A Cookie header whose value is not valid percent-encoding (sid=%): the
\* decodeURIComponent call of parseCookies raises URIError.
MalformedCookie == -2

\* [ok, tbl, raised]: findSession deletes the row it finds expired; raised =
\* TRUE when parseCookies raises, which isAuthenticated does not catch.
isAuthenticated(stbl, cookie, t) ==
    IF cookie = MalformedCookie THEN [ok |-> FALSE, tbl |-> stbl, raised |-> TRUE]
    ELSE IF cookie = NoCookie THEN [ok |-> FALSE, tbl |-> stbl, raised |-> FALSE]
    ELSE LET f == findSession(stbl, cookie, t)
         IN [ok |-> f.found, tbl |-> f.tbl, raised |-> FALSE]

\* withAuth without its adminMustChangePassword() branch.
withAuth_NoRotationCheck(stbl, atbl, cookie, t, allowDuringPasswordReset) ==
    LET a == isAuthenticated(stbl, cookie, t)
    IN IF ~a.ok
       THEN [pass |-> FALSE, outcome |-> "/admin?error=Please+login", tbl |-> a.tbl]
       ELSE [pass |-> TRUE, outcome |-> "", tbl |-> a.tbl]

\* withAuth sending a pending rotation to the login page.
withAuth_PendingToLogin(stbl, atbl, cookie, t, allowDuringPasswordReset) ==
    LET a == isAuthenticated(stbl, cookie, t)
    IN IF ~a.ok \/ (adminMustChangePassword(atbl) /\ ~allowDuringPasswordReset)
       THEN [pass |-> FALSE, outcome |-> "/admin?error=Please+login", tbl |-> a.tbl]
       ELSE [pass |-> TRUE, outcome |-> "", tbl |-> a.tbl]

\* [pass, outcome, tbl]: pass = TRUE when the handler is called. What
\* isAuthenticated raises leaves withAuth and the route: Bun.serve's error()
\* answers "Internal Server Error" with status 500.
withAuth(stbl, atbl, cookie, t, allowDuringPasswordReset) ==
    LET a == isAuthenticated(stbl, cookie, t)
    IN IF a.raised
       THEN [pass |-> FALSE, outcome |-> "500", tbl |-> a.tbl]
       ELSE IF ~a.ok
       THEN [pass |-> FALSE, outcome |-> "/admin?error=Please+login", tbl |-> a.tbl]
       ELSE IF adminMustChangePassword(atbl) /\ ~allowDuringPasswordReset
            THEN [pass |-> FALSE, outcome |-> "/admin/password", tbl |-> a.tbl]
            ELSE [pass |-> TRUE, outcome |-> "", tbl |-> a.tbl]

\* ------------------------------------------------------------ the cookie
\* (Bun.env.NODE_ENV ?? "").toLowerCase() === "production"
isProduction(nodeEnv) ==
    toLowerCase(nodeEnv) = <<"p","r","o","d","u","c","t","i","o","n">>

\* request: [nodeEnv, scheme, forwardedProto]: the NODE_ENV of the process, the
\* protocol of request.url and the X-Forwarded-Proto header (NoText: absent).
\* The first field of the header decides when it is "https" or "http", then
\* the protocol of the URL; isProduction() is asked only when neither does.
isSecureRequest(request) ==
    LET forwardedProto == request.forwardedProto
        first == IF includes(forwardedProto, ",")
                 THEN SubSeq(forwardedProto, 1,
                             (CHOOSE i \in DOMAIN forwardedProto :
                                 /\ forwardedProto[i] = ","
                                 /\ \A j \in 1..(i - 1) : forwardedProto[j] # ",") - 1)
                 ELSE forwardedProto
        proto == toLowerCase(trim(first))
    IN IF forwardedProto # NoText /\ proto = <<"h","t","t","p","s">> THEN TRUE
       ELSE IF forwardedProto # NoText /\ proto = <<"h","t","t","p">> THEN FALSE
       ELSE IF request.scheme = "https:" THEN TRUE
       ELSE IF request.scheme = "http:" THEN FALSE
       ELSE isProduction(request.nodeEnv)

\* The Set-Cookie value by its parts; secure: "; Secure" is appended.
authCookie(sessionId, maxAgeSeconds, request) ==
    [name |-> SESSION_COOKIE, value |-> sessionId, httpOnly |-> TRUE, path |-> "/",
     sameSite |-> "Lax", maxAge |-> maxAgeSeconds, secure |-> isSecureRequest(request)]

clearAuthCookie(request) ==
    [name |-> SESSION_COOKIE, value |-> NoCookie, httpOnly |-> TRUE, path |-> "/",
     sameSite |-> "Lax", maxAge |-> 0, secure |-> isSecureRequest(request)]

\* ------------------------------------------------- environment and inputs
DefaultTtl == Num(1, 1)

Configs ==
    { [port |-> Num(3000, 1), ttlDays |-> DefaultTtl, minLen |-> Num(12, 1)],
      [port |-> Num(3000, 1), ttlDays |-> DefaultTtl, minLen |-> Num(8, 1)],
      [port |-> Num(3000, 1), ttlDays |-> Num(1, 8), minLen |-> Num(12, 1)],
      [port |-> Num(3000, 1), ttlDays |-> Infinity, minLen |-> Num(12, 1)],
      [port |-> Num(3000, 1), ttlDays |-> Num(0, 1), minLen |-> Num(12, 1)],
      [port |-> Num(3000, 1), ttlDays |-> NaN, minLen |-> Num(12, 1)],
      [port |-> Num(3000, 1), ttlDays |-> DefaultTtl, minLen |-> Num(7, 1)],
      [port |-> Num(3000, 1), ttlDays |-> DefaultTtl, minLen |-> NaN],
      [port |-> Num(0, 1), ttlDays |-> DefaultTtl, minLen |-> Num(12, 1)] }

OtherPassword == "correct-horse-battery"
Passwords == {DEFAULT_ADMIN_PASSWORD, OtherPassword}
PasswordInputs == Passwords \cup {""}
OldSalt == "s1"      \* the salt of a credential a previous run stored
Salts == {"s2"}       \* randomBytes(16).toString("hex")
StaleUsername == "legacy"
LoginUsernames == {"", ADMIN_USERNAME, "mallory"}

\* The admin_users table a previous run can have left behind.
InitialAdminTables ==
    LET rows == {AdminRow(Pbkdf2Hex(pw, OldSalt), OldSalt, f) : pw \in Passwords, f \in {0, 1}}
        own == {EmptyTable} \cup {(ADMIN_USERNAME :> r) : r \in rows}
        stale == {EmptyTable,
                  (StaleUsername :> AdminRow(Pbkdf2Hex(OtherPassword, OldSalt), OldSalt, 0))}
    IN {a @@ b : a \in own, b \in stale}

\* The sessions table a previous run can have left behind: nothing, or a
\* session that expired one tick before this process started.
InitialSessionTables ==
    {EmptyTable,
     (1 :> SessionRow(SqliteDatetimeNow(BootTime - 1), toISOString(BootTime - 1)))}

SessionIds == 1..MaxSessions
Cookies == {NoCookie} \cup SessionIds
TargetVideoIds == {4}
TargetAssetIds == {7}
FormTitles == {NoText, <<"H","e","l","l","o",","," ","W","o","r","l","d","!">>}
FormSlugs == {NoText}
UpdateTitles == {NoText, <<"N","e","w">>}
AssetForms ==
    { [label |-> NoText, url |-> "", filename |-> NoText, content |-> NoText],
      [label |-> <<"n","o","t","e","s">>, url |-> "", filename |-> NoText, content |-> NoText],
      [label |-> <<"n","o","t","e","s">>, url |-> "https://example.com/notes", filename |-> NoText,
       content |-> NoText],
      [label |-> <<"n","o","t","e","s">>, url |-> "", filename |-> NoText, content |-> <<"x">>] }

\* ------------------------------------------------ requests and responses
NoSetCookie == -1     \* no Set-Cookie header
ClearCookie == 0      \* clearAuthCookie: sid=; Max-Age=0

Response(route, outcome, setCookie) ==
    [route |-> route, outcome |-> outcome, setCookie |-> setCookie, body |-> NoText]

\* A response that carries a body.
Body(route, outcome, body) ==
    [route |-> route, outcome |-> outcome, setCookie |-> NoSetCookie, body |-> body]

NoLast == Response("none", "", NoSetCookie)

\* A request suspended at `await request.formData()` (phase "form") or at
\* `await Bun.sleep(150)` (phase "sleep", to answer with outcome). The delay is
\* far shorter than a clock tick: it may end before or after the next tick.
Suspended(route, cookie, arg, ph, outcome) ==
    [route |-> route, cookie |-> cookie, arg |-> arg, phase |-> ph, outcome |-> outcome]

AtForm(route, cookie, arg) == Suspended(route, cookie, arg, "form", "")

CanSuspend == Cardinality(pending) < MaxInflight

\* --------------------------------------------------------------- startup
Init ==
    /\ phase = "boot"
    /\ cfg \in Configs
    /\ now = BootTime
    /\ admin_users \in InitialAdminTables
    /\ sessions \in InitialSessionTables
    /\ nextSid = Cardinality(DOMAIN sessions) + 1
    /\ \E c \in {FreshContent, seedIfEmpty(FreshContent)} :
          /\ videos = c.videos
          /\ assets = c.assets
          /\ nextVideoId = c.nextVideoId
          /\ nextAssetId = c.nextAssetId
    /\ pending = {}
    /\ last = NoLast

\* Module load of server.ts: ensureProductionConfig(); seedIfEmpty();
\* initializeAdminUser(); Bun.serve(...).
Startup ==
    /\ phase = "boot"
    /\ IF ensureProductionConfig
       THEN \E salt \in Salts :
              LET c == seedIfEmpty([videos |-> videos, assets |-> assets,
                                    nextVideoId |-> nextVideoId,
                                    nextAssetId |-> nextAssetId])
              IN /\ phase' = "serving"
                 /\ videos' = c.videos
                 /\ assets' = c.assets
                 /\ nextVideoId' = c.nextVideoId
                 /\ nextAssetId' = c.nextAssetId
                 /\ admin_users' = initializeAdminUser(admin_users, salt)
       ELSE /\ phase' = "exited"
            /\ UNCHANGED <<admin_users, content>>
    /\ last' = Response("startup",
                        IF ~ensureProductionConfig THEN "exit(1)"
                        ELSE IF ~hasAdminUser(admin_users, ADMIN_USERNAME) THEN "created"
                        ELSE IF admin_users'[ADMIN_USERNAME] # admin_users[ADMIN_USERNAME]
                             THEN "enforced" ELSE "kept",
                        NoSetCookie)
    /\ UNCHANGED <<cfg, now, sessions, nextSid, pending>>

Tick ==
    /\ phase = "serving"
    /\ now < MaxTime
    /\ now' = now + 1
    /\ last' = NoLast
    /\ UNCHANGED <<phase, cfg, store, pending>>

\* -------------------------------------------------- routes without a gate
\* The head of Bun.serve's fetch: pruneSessionsSafely(), then the route.
Swept == pruneSessionsSafely(sessions, now)

\* GET /, /healthz and the final notFound(): no store write
\* but the sweep. None of them reads the cookie.
ServeOpen(route, outcome) ==
    /\ phase = "serving"
    /\ sessions' = Swept
    /\ last' = Response(route, outcome, NoSetCookie)
    /\ UNCHANGED <<phase, cfg, now, admin_users, nextSid, content, pending>>

servePublic == ServeOpen("GET /", "page:public")
serveApi ==
    /\ phase = "serving"
    /\ sessions' = Swept
    /\ last' = Body("GET /api/videos", "json:videos",
                    serializeVideosForApi(listVideosWithAssets(videos, assets)))
    /\ UNCHANGED <<phase, cfg, now, admin_users, nextSid, content, pending>>
serveHealthz == ServeOpen("/healthz", "ok")
notFound == ServeOpen("*", "404")

handleAssetDownload(assetId) ==
    /\ phase = "serving"
    /\ sessions' = Swept
    /\ last' = LET asset == getAssetById(assets, assetId)
                    filename == IF Len(trim(asset.filename)) > 0 THEN asset.filename
                                ELSE AssetFallback(assetId)
                IN IF asset = NoAsset \/ asset.content = NoText
                   THEN Response("GET /downloads/assets/{id}", "404", NoSetCookie)
                   ELSE Body("GET /downloads/assets/{id}", "download",
                             [filename |-> filename, content |-> asset.content])
    /\ UNCHANGED <<phase, cfg, now, admin_users, nextSid, content, pending>>

serveAdmin(k) ==
    LET a == isAuthenticated(Swept, k, now)
    IN /\ phase = "serving"
       /\ sessions' = a.tbl
       /\ last' = Response("GET /admin",
                           IF a.raised THEN "500"
                           ELSE IF ~a.ok THEN "page:login"
                           ELSE IF adminMustChangePassword(admin_users)
                                THEN "/admin/password" ELSE "page:dashboard",
                           NoSetCookie)
       /\ UNCHANGED <<phase, cfg, now, admin_users, nextSid, content, pending>>

\* ------------------------------------------------------------------ login
\* POST /admin/login up to `await request.formData()`; the cookie is not read.
fetchLogin ==
    /\ phase = "serving"
    /\ CanSuspend
    /\ sessions' = Swept
    /\ pending' = pending \cup {AtForm("POST /admin/login", NoCookie, 0)}
    /\ last' = NoLast
    /\ UNCHANGED <<phase, cfg, now, admin_users, nextSid, content>>

Sleep(p, outcome) == Suspended(p.route, p.cookie, p.arg, "sleep", outcome)

\* handleLogin answering a username that is not the configured one at once,
\* without the delay.
handleLogin_NoDelayForUnknownUser(p, username, password) ==
    /\ phase = "serving"
    /\ p \in pending /\ p.route = "POST /admin/login" /\ p.phase = "form"
    /\ IF username = "" \/ password = ""
       THEN /\ pending' = pending \ {p}
            /\ last' = Response(p.route, "/admin?error=Missing+credentials", NoSetCookie)
            /\ UNCHANGED <<sessions, nextSid>>
       ELSE IF username # ADMIN_USERNAME
       THEN /\ pending' = pending \ {p}
            /\ last' = Response(p.route, "/admin?error=Invalid+credentials", NoSetCookie)
            /\ UNCHANGED <<sessions, nextSid>>
       ELSE IF ~hasAdminUser(admin_users, ADMIN_USERNAME)
               \/ ~passwordsMatch(password, admin_users[ADMIN_USERNAME].password_hash,
                                  admin_users[ADMIN_USERNAME].salt)
       THEN /\ pending' = (pending \ {p}) \cup {Sleep(p, "/admin?error=Invalid+credentials")}
            /\ last' = NoLast
            /\ UNCHANGED <<sessions, nextSid>>
       ELSE IF SESSION_TTL_DAYS.k = "inf"
       THEN \* new Date(Infinity).toISOString() raises RangeError: Bun.serve's error()
            /\ pending' = pending \ {p}
            /\ last' = Response(p.route, "500", NoSetCookie)
            /\ UNCHANGED <<sessions, nextSid>>
       ELSE /\ nextSid <= MaxSessions
            /\ sessions' = createSession(sessions, nextSid, toISOString(ExpiryTime(now)), now)
            /\ nextSid' = nextSid + 1
            /\ pending' = pending \ {p}
            /\ last' = Response(p.route,
                                IF admin_users[ADMIN_USERNAME].must_change_password # 0
                                THEN "/admin/password" ELSE "/admin",
                                nextSid)
    /\ UNCHANGED <<phase, cfg, now, admin_users, content>>

\* handleLogin after the form is read (username after .trim()).
handleLogin(p, username, password) ==
    /\ phase = "serving"
    /\ p \in pending /\ p.route = "POST /admin/login" /\ p.phase = "form"
    /\ IF username = "" \/ password = ""
       THEN /\ pending' = pending \ {p}
            /\ last' = Response(p.route, "/admin?error=Missing+credentials", NoSetCookie)
            /\ UNCHANGED <<sessions, nextSid>>
       ELSE IF username # ADMIN_USERNAME
               \/ ~hasAdminUser(admin_users, ADMIN_USERNAME)
               \/ ~passwordsMatch(password, admin_users[ADMIN_USERNAME].password_hash,
                                  admin_users[ADMIN_USERNAME].salt)
       THEN /\ pending' = (pending \ {p}) \cup {Sleep(p, "/admin?error=Invalid+credentials")}
            /\ last' = NoLast
            /\ UNCHANGED <<sessions, nextSid>>
       ELSE IF SESSION_TTL_DAYS.k = "inf"
       THEN \* new Date(Infinity).toISOString() raises RangeError: Bun.serve's error()
            /\ pending' = pending \ {p}
            /\ last' = Response(p.route, "500", NoSetCookie)
            /\ UNCHANGED <<sessions, nextSid>>
       ELSE /\ nextSid <= MaxSessions
            /\ sessions' = createSession(sessions, nextSid, toISOString(ExpiryTime(now)), now)
            /\ nextSid' = nextSid + 1
            /\ pending' = pending \ {p}
            /\ last' = Response(p.route,
                                IF admin_users[ADMIN_USERNAME].must_change_password # 0
                                THEN "/admin/password" ELSE "/admin",
                                nextSid)
    /\ UNCHANGED <<phase, cfg, now, admin_users, content>>

\* registerGracefulShutdown: on SIGINT or SIGTERM, server.stop(true) closes
\* every connection at once, db.close(), process.exit(0), in one synchronous
\* callback. A handler suspended at an await is never resumed.
shutdown ==
    /\ phase = "serving"
    /\ phase' = "stopped"
    /\ last' = Response("SIGTERM", "exit(0)", NoSetCookie)
    /\ UNCHANGED <<cfg, now, store, pending>>

\* The end of `await Bun.sleep(150)`: the redirect decided before it.
afterSleep(p) ==
    /\ phase = "serving"
    /\ p \in pending /\ p.phase = "sleep"
    /\ pending' = pending \ {p}
    /\ last' = Response(p.route, p.outcome, NoSetCookie)
    /\ UNCHANGED <<phase, cfg, now, store>>

\* POST /admin/logout: withAuth(..., allowDuringPasswordReset), then handleLogout.
handleLogout(k) ==
    LET g == withAuth(Swept, admin_users, k, now, TRUE)
    IN /\ phase = "serving"
       /\ sessions' = IF g.pass /\ k # NoCookie THEN deleteSession(g.tbl, k) ELSE g.tbl
       /\ last' = Response("POST /admin/logout",
                           IF g.pass THEN "/admin" ELSE g.outcome,
                           IF g.pass THEN ClearCookie ELSE NoSetCookie)
       /\ UNCHANGED <<phase, cfg, now, admin_users, nextSid, content, pending>>

\* -------------------------------------------------------- password change
\* GET /admin/password
servePasswordChange(k) ==
    LET g == withAuth(Swept, admin_users, k, now, TRUE)
    IN /\ phase = "serving"
       /\ sessions' = g.tbl
       /\ last' = Response("GET /admin/password",
                           IF g.pass THEN "page:password" ELSE g.outcome, NoSetCookie)
       /\ UNCHANGED <<phase, cfg, now, admin_users, nextSid, content, pending>>

\* A gated POST whose handler starts with `await request.formData()`.
FetchGatedForm(route, arg, k, allowDuringPasswordReset) ==
    LET g == withAuth(Swept, admin_users, k, now, allowDuringPasswordReset)
    IN /\ phase = "serving"
       /\ g.pass => CanSuspend
       /\ sessions' = g.tbl
       /\ pending' = IF g.pass THEN pending \cup {AtForm(route, k, arg)} ELSE pending
       /\ last' = IF g.pass THEN NoLast ELSE Response(route, g.outcome, NoSetCookie)
       /\ UNCHANGED <<phase, cfg, now, admin_users, nextSid, content>>

\* handlePasswordChange without its length test.
TooShort_Never(next) == FALSE

\* next.length < MIN_PASSWORD_LENGTH (a serving process has a numeric minimum)
TooShort(next) ==
    \/ MIN_PASSWORD_LENGTH.k = "inf"
    \/ Len(next) * MIN_PASSWORD_LENGTH.d < MIN_PASSWORD_LENGTH.n

\* POST /admin/password up to the await.
fetchPasswordChange(k) == FetchGatedForm("POST /admin/password", 0, k, TRUE)

\* handlePasswordChange deleting every session when it stores the new password.
handlePasswordChange_RevokesSessions(p, current, next, confirm, salt) ==
    /\ phase = "serving"
    /\ p \in pending /\ p.route = "POST /admin/password" /\ p.phase = "form"
    /\ IF current = "" \/ next = "" \/ confirm = ""
       THEN /\ pending' = pending \ {p}
            /\ last' = Response(p.route, "/admin/password?error=All+fields+are+required",
                                NoSetCookie)
            /\ UNCHANGED <<admin_users, sessions>>
       ELSE IF next # confirm
       THEN /\ pending' = pending \ {p}
            /\ last' = Response(p.route, "/admin/password?error=Passwords+do+not+match",
                                NoSetCookie)
            /\ UNCHANGED <<admin_users, sessions>>
       ELSE IF TooShort(next)
       THEN /\ pending' = pending \ {p}
            /\ last' = Response(p.route, "/admin/password?error=Password+must+be+at+least",
                                NoSetCookie)
            /\ UNCHANGED <<admin_users, sessions>>
       ELSE IF ~hasAdminUser(admin_users, ADMIN_USERNAME)
               \/ ~passwordsMatch(current, admin_users[ADMIN_USERNAME].password_hash,
                                  admin_users[ADMIN_USERNAME].salt)
       THEN /\ pending' = (pending \ {p})
                          \cup {Sleep(p, "/admin/password?error=Current+password+is+incorrect")}
            /\ last' = NoLast
            /\ UNCHANGED <<admin_users, sessions>>
       ELSE LET d == derivePasswordHash(next, salt)
            IN /\ admin_users' = updateAdminPassword(admin_users, ADMIN_USERNAME,
                                                     d.hash, d.salt, FALSE)
               /\ sessions' = EmptyTable
               /\ pending' = pending \ {p}
               /\ last' = Response(p.route, "/admin?flash=Password+updated", NoSetCookie)
    /\ UNCHANGED <<phase, cfg, now, nextSid, content>>

\* handlePasswordChange after the form is read; salt: the randomBytes(16) drawn.
handlePasswordChange(p, current, next, confirm, salt) ==
    /\ phase = "serving"
    /\ p \in pending /\ p.route = "POST /admin/password" /\ p.phase = "form"
    /\ IF current = "" \/ next = "" \/ confirm = ""
       THEN /\ pending' = pending \ {p}
            /\ last' = Response(p.route, "/admin/password?error=All+fields+are+required",
                                NoSetCookie)
            /\ UNCHANGED admin_users
       ELSE IF next # confirm
       THEN /\ pending' = pending \ {p}
            /\ last' = Response(p.route, "/admin/password?error=Passwords+do+not+match",
                                NoSetCookie)
            /\ UNCHANGED admin_users
       ELSE IF TooShort(next)
       THEN /\ pending' = pending \ {p}
            /\ last' = Response(p.route, "/admin/password?error=Password+must+be+at+least",
                                NoSetCookie)
            /\ UNCHANGED admin_users
       ELSE IF ~hasAdminUser(admin_users, ADMIN_USERNAME)
               \/ ~passwordsMatch(current, admin_users[ADMIN_USERNAME].password_hash,
                                  admin_users[ADMIN_USERNAME].salt)
       THEN /\ pending' = (pending \ {p})
                          \cup {Sleep(p, "/admin/password?error=Current+password+is+incorrect")}
            /\ last' = NoLast
            /\ UNCHANGED admin_users
       ELSE LET d == derivePasswordHash(next, salt)
            IN /\ admin_users' = updateAdminPassword(admin_users, ADMIN_USERNAME,
                                                     d.hash, d.salt, FALSE)
               /\ pending' = pending \ {p}
               /\ last' = Response(p.route, "/admin?flash=Password+updated", NoSetCookie)
    /\ UNCHANGED <<phase, cfg, now, sessions, nextSid, content>>

\* ------------------------------------------------------- content routes
\* POST /admin/videos up to the await.
fetchCreateVideo(k) == FetchGatedForm("POST /admin/videos", 0, k, FALSE)

\* handleCreateVideo after the form is read.
handleCreateVideo(p, titleInput, slugInput) ==
    LET title == trim(titleInput)
        slug == IF trim(slugInput) # NoText THEN trim(slugInput) ELSE slugify(title, now)
        r == createVideo(videos, nextVideoId, title, slug)
    IN /\ phase = "serving"
       /\ p \in pending /\ p.route = "POST /admin/videos" /\ p.phase = "form"
       /\ pending' = pending \ {p}
       /\ IF title = NoText
          THEN /\ last' = Response(p.route, "/admin?error=Title+is+required", NoSetCookie)
               /\ UNCHANGED <<videos, nextVideoId>>
          ELSE /\ nextVideoId <= MaxVideoId
               /\ videos' = r.videos
               /\ nextVideoId' = r.nextId
               /\ last' = Response(p.route,
                                   IF r.ok THEN "/admin?flash=Video+pack+created"
                                   ELSE "/admin?error=Failed+to+create+video",
                                   NoSetCookie)
       /\ UNCHANGED <<phase, cfg, now, admin_users, sessions, nextSid, assets, nextAssetId>>

\* POST /admin/videos/{id} up to the await.
fetchUpdateVideo(videoId, k) == FetchGatedForm("POST /admin/videos/{id}", videoId, k, FALSE)

\* handleUpdateVideo without its `if (!title)` branch.
handleUpdateVideo_NoTitleCheck(p, titleInput) ==
    /\ phase = "serving"
    /\ p \in pending /\ p.route = "POST /admin/videos/{id}" /\ p.phase = "form"
    /\ pending' = pending \ {p}
    /\ videos' = updateVideo(videos, p.arg, trim(titleInput))
    /\ last' = Response(p.route, "/admin?flash=Changes+saved", NoSetCookie)
    /\ UNCHANGED <<phase, cfg, now, admin_users, sessions, nextSid, assets,
                   nextVideoId, nextAssetId>>

\* handleUpdateVideo after the form is read.
handleUpdateVideo(p, titleInput) ==
    LET title == trim(titleInput)
    IN /\ phase = "serving"
       /\ p \in pending /\ p.route = "POST /admin/videos/{id}" /\ p.phase = "form"
       /\ pending' = pending \ {p}
       /\ IF title = NoText
          THEN /\ last' = Response(p.route, "/admin?error=Title+is+required", NoSetCookie)
               /\ UNCHANGED videos
          ELSE /\ videos' = updateVideo(videos, p.arg, title)
               /\ last' = Response(p.route, "/admin?flash=Changes+saved", NoSetCookie)
       /\ UNCHANGED <<phase, cfg, now, admin_users, sessions, nextSid, assets,
                      nextVideoId, nextAssetId>>

\* POST /admin/videos/{id}/delete: the gate, then handleDeleteVideo (no await).
handleDeleteVideo(videoId, k) ==
    LET g == withAuth(Swept, admin_users, k, now, FALSE)
        r == deleteVideo(videos, assets, videoId)
    IN /\ phase = "serving"
       /\ sessions' = g.tbl
       /\ videos' = IF g.pass THEN r.videos ELSE videos
       /\ assets' = IF g.pass THEN r.assets ELSE assets
       /\ last' = Response("POST /admin/videos/{id}/delete",
                           IF g.pass THEN "/admin?flash=Video+deleted" ELSE g.outcome,
                           NoSetCookie)
       /\ UNCHANGED <<phase, cfg, now, admin_users, nextSid, nextVideoId, nextAssetId,
                      pending>>

\* POST /admin/videos/{id}/assets up to the await.
fetchCreateAsset(videoId, k) ==
    FetchGatedForm("POST /admin/videos/{id}/assets", videoId, k, FALSE)

\* handleCreateAsset without its two validation branches.
handleCreateAsset_NoValidation(p, form) ==
    LET label == trim(form.label)
        normalizedContent ==
            IF form.content # NoText THEN normalizeSnippetContent(form.content) ELSE NoText
        hasContent == Len(trim(normalizedContent)) > 0
        filename == IF hasContent THEN resolveFilename(label, form.filename, now) ELSE NoText
        r == createAsset(videos, assets, nextAssetId, p.arg, label,
                         IF hasContent THEN "" ELSE form.url, filename,
                         IF hasContent THEN normalizedContent ELSE NoText, 0)
    IN /\ phase = "serving"
       /\ p \in pending /\ p.route = "POST /admin/videos/{id}/assets" /\ p.phase = "form"
       /\ pending' = pending \ {p}
       /\ nextAssetId <= MaxAssetId
       /\ assets' = r.assets
       /\ nextAssetId' = r.nextId
       /\ last' = Response(p.route,
                           IF r.ok THEN "/admin?flash=Asset+added"
                           ELSE "/admin?error=Could+not+add+asset",
                           NoSetCookie)
       /\ UNCHANGED <<phase, cfg, now, admin_users, sessions, nextSid, videos, nextVideoId>>

\* handleCreateAsset after the form is read.
handleCreateAsset(p, form) ==
    LET label == trim(form.label)
        normalizedContent ==
            IF form.content # NoText THEN normalizeSnippetContent(form.content) ELSE NoText
        hasContent == Len(trim(normalizedContent)) > 0
        hasUrl == form.url # ""
        filename == IF hasContent THEN resolveFilename(label, form.filename, now) ELSE NoText
        r == createAsset(videos, assets, nextAssetId, p.arg, label,
                         IF hasContent THEN "" ELSE form.url, filename,
                         IF hasContent THEN normalizedContent ELSE NoText, 0)
    IN /\ phase = "serving"
       /\ p \in pending /\ p.route = "POST /admin/videos/{id}/assets" /\ p.phase = "form"
       /\ pending' = pending \ {p}
       /\ IF label = NoText
          THEN /\ last' = Response(p.route, "/admin?error=Asset+label+is+required",
                                   NoSetCookie)
               /\ UNCHANGED <<assets, nextAssetId>>
          ELSE IF ~hasContent /\ ~hasUrl
          THEN /\ last' = Response(p.route, "/admin?error=Provide+content+or+a+URL",
                                   NoSetCookie)
               /\ UNCHANGED <<assets, nextAssetId>>
          ELSE /\ nextAssetId <= MaxAssetId
               /\ assets' = r.assets
               /\ nextAssetId' = r.nextId
               /\ last' = Response(p.route,
                                   IF r.ok THEN "/admin?flash=Asset+added"
                                   ELSE "/admin?error=Could+not+add+asset",
                                   NoSetCookie)
       /\ UNCHANGED <<phase, cfg, now, admin_users, sessions, nextSid, videos, nextVideoId>>

\* POST /admin/assets/{id}/delete: the gate, then handleDeleteAsset (no await).
handleDeleteAsset(assetId, k) ==
    LET g == withAuth(Swept, admin_users, k, now, FALSE)
    IN /\ phase = "serving"
       /\ sessions' = g.tbl
       /\ assets' = IF g.pass THEN deleteAsset(assets, assetId) ELSE assets
       /\ last' = Response("POST /admin/assets/{id}/delete",
                           IF g.pass THEN "/admin?flash=Asset+removed" ELSE g.outcome,
                           NoSetCookie)
       /\ UNCHANGED <<phase, cfg, now, admin_users, nextSid, videos, nextVideoId,
                      nextAssetId, pending>>

\* ---------------------------------------------------------- specification
\* A request arrives: the synchronous part of fetch, up to the response or to
\* the handler's first await.
Arrive ==
    \/ servePublic
    \/ serveApi
    \/ serveHealthz
    \/ notFound
    \/ \E a \in TargetAssetIds : handleAssetDownload(a)
    \/ \E k \in Cookies : serveAdmin(k)
    \/ fetchLogin
    \/ \E k \in Cookies : handleLogout(k)
    \/ \E k \in Cookies : servePasswordChange(k)
    \/ \E k \in Cookies : fetchPasswordChange(k)
    \/ \E k \in Cookies : fetchCreateVideo(k)
    \/ \E v \in TargetVideoIds, k \in Cookies : fetchUpdateVideo(v, k)
    \/ \E v \in TargetVideoIds, k \in Cookies : handleDeleteVideo(v, k)
    \/ \E v \in TargetVideoIds, k \in Cookies : fetchCreateAsset(v, k)
    \/ \E a \in TargetAssetIds, k \in Cookies : handleDeleteAsset(a, k)

\* A suspended handler goes on after its await.
Resume ==
    \/ \E p \in pending, u \in LoginUsernames, pw \in PasswordInputs : handleLogin(p, u, pw)
    \/ \E p \in pending : afterSleep(p)
    \/ \E p \in pending, c \in PasswordInputs, n \in PasswordInputs, f \in PasswordInputs,
          salt \in Salts : handlePasswordChange(p, c, n, f, salt)
    \/ \E p \in pending, t \in FormTitles, sl \in FormSlugs : handleCreateVideo(p, t, sl)
    \/ \E p \in pending, t \in UpdateTitles : handleUpdateVideo(p, t)
    \/ \E p \in pending, form \in AssetForms : handleCreateAsset(p, form)

\* The program: requests interleave at their await points as the clock runs.
Next == Startup \/ Tick \/ Arrive \/ Resume

FullSpec == Init /\ [][Next]_vars

\* The gate at one instant of the clock, requests served one at a time (a
\* request arrives only when no handler is suspended), over a seeded database.
NextSerial ==
    \/ Startup
    \/ pending = {} /\ servePublic
    \/ pending = {} /\ serveApi
    \/ pending = {} /\ serveHealthz
    \/ pending = {} /\ notFound
    \/ \E a \in TargetAssetIds : pending = {} /\ handleAssetDownload(a)
    \/ \E k \in Cookies : pending = {} /\ serveAdmin(k)
    \/ pending = {} /\ fetchLogin
    \/ \E k \in Cookies : pending = {} /\ handleLogout(k)
    \/ \E k \in Cookies : pending = {} /\ servePasswordChange(k)
    \/ \E k \in Cookies : pending = {} /\ fetchPasswordChange(k)
    \/ \E k \in Cookies : pending = {} /\ fetchCreateVideo(k)
    \/ \E v \in TargetVideoIds, k \in Cookies : pending = {} /\ fetchUpdateVideo(v, k)
    \/ \E v \in TargetVideoIds, k \in Cookies : pending = {} /\ handleDeleteVideo(v, k)
    \/ \E v \in TargetVideoIds, k \in Cookies : pending = {} /\ fetchCreateAsset(v, k)
    \/ \E a \in TargetAssetIds, k \in Cookies : pending = {} /\ handleDeleteAsset(a, k)
    \/ Resume

InitSerial ==
    /\ Init
    /\ cfg.port = Num(3000, 1) /\ cfg.ttlDays = DefaultTtl
    /\ StaleUsername \notin DOMAIN admin_users
    /\ videos # EmptyTable

Spec == InitSerial /\ [][NextSerial]_vars

\* The session lifecycle as the clock runs: logins, logouts, gated page views
\* and the sweep every request starts with, over a fresh database.
NextClock ==
    \/ Startup
    \/ Tick
    \/ servePublic
    \/ \E k \in Cookies : serveAdmin(k)
    \/ fetchLogin
    \/ \E p \in pending, u \in LoginUsernames, pw \in PasswordInputs : handleLogin(p, u, pw)
    \/ \E p \in pending : afterSleep(p)
    \/ \E k \in Cookies : handleLogout(k)

InitClock ==
    /\ Init
    /\ cfg.port = Num(3000, 1) /\ cfg.minLen = Num(12, 1)
    /\ admin_users = EmptyTable
    /\ sessions = EmptyTable
    /\ videos = EmptyTable

SpecClock == InitClock /\ [][NextClock]_vars

\* Startup alone, over every configuration and every database a previous run
\* can have left behind.
SpecBoot == Init /\ [][Startup]_vars

\* The credential store from start-up on: every admin_users table a previous
\* run can have left behind (a stale username included), then logins, logouts
\* and password changes served one at a time.
NextCred ==
    \/ Startup
    \/ pending = {} /\ fetchLogin
    \/ \E p \in pending, u \in LoginUsernames, pw \in PasswordInputs : handleLogin(p, u, pw)
    \/ \E p \in pending : afterSleep(p)
    \/ \E k \in Cookies : pending = {} /\ handleLogout(k)
    \/ \E k \in Cookies : pending = {} /\ fetchPasswordChange(k)
    \/ \E p \in pending, c \in PasswordInputs, n \in PasswordInputs, f \in PasswordInputs,
          salt \in Salts : handlePasswordChange(p, c, n, f, salt)

InitCred ==
    /\ Init
    /\ cfg.port = Num(3000, 1) /\ cfg.ttlDays = DefaultTtl
    /\ sessions = EmptyTable
    /\ videos = EmptyTable

SpecCred == InitCred /\ [][NextCred]_vars

\* The ids and the forms the content routes are called with: a seeded video,
\* the first one an administrator creates and an id no video ever has; titles
\* and slugs that are blank, new, or those of a seeded video.
ContentInputs ==
    [videoIds |-> {1, MaxVideoId, MaxVideoId + 1},
     assetIds |-> {1, MaxAssetId},
     titles |-> {NoText, <<" ">>, <<"H","e","l","l","o",","," ","W","o","r","l","d","!">>,
                 <<"N","P","M","!">>},
     slugs |-> {NoText, <<"j","e","l","l","y","f","i","n">>},
     updateTitles |-> {NoText, <<" ", "\t">>, <<"N","e","w">>},
     assetForms |-> AssetForms \cup
        { [label |-> <<" ">>, url |-> "https://example.com/notes", filename |-> NoText,
           content |-> <<"x">>],
          [label |-> <<"n","o","t","e","s">>, url |-> "", filename |-> NoText,
           content |-> <<" ", "\r", "\n">>] }]

\* The content routes behind the gate, requests served one at a time: an
\* administrator whose password is not the default logs in, then creates,
\* updates and deletes videos and assets while the public routes are read.
NextContent ==
    \/ Startup
    \/ pending = {} /\ fetchLogin
    \/ \E p \in pending : handleLogin(p, ADMIN_USERNAME, OtherPassword)
    \/ pending = {} /\ serveApi
    \/ \E a \in ContentInputs.assetIds : pending = {} /\ handleAssetDownload(a)
    \/ \E k \in Cookies : pending = {} /\ fetchCreateVideo(k)
    \/ \E p \in pending, t \in ContentInputs.titles, sl \in ContentInputs.slugs :
          handleCreateVideo(p, t, sl)
    \/ \E v \in ContentInputs.videoIds, k \in Cookies : pending = {} /\ fetchUpdateVideo(v, k)
    \/ \E p \in pending, t \in ContentInputs.updateTitles : handleUpdateVideo(p, t)
    \/ \E v \in ContentInputs.videoIds, k \in Cookies : pending = {} /\ handleDeleteVideo(v, k)
    \/ \E v \in ContentInputs.videoIds, k \in Cookies : pending = {} /\ fetchCreateAsset(v, k)
    \/ \E p \in pending, form \in ContentInputs.assetForms : handleCreateAsset(p, form)
    \/ \E a \in ContentInputs.assetIds, k \in Cookies : pending = {} /\ handleDeleteAsset(a, k)

InitContent ==
    /\ Init
    /\ cfg = [port |-> Num(3000, 1), ttlDays |-> DefaultTtl, minLen |-> Num(12, 1)]
    /\ admin_users = (ADMIN_USERNAME :> AdminRow(Pbkdf2Hex(OtherPassword, OldSalt), OldSalt, 0))
    /\ sessions = EmptyTable

SpecContent == InitContent /\ [][NextContent]_vars

\* Requests in flight: arrivals are served while a handler is suspended at
\* its await, a Cookie header may be malformed, and a signal may stop the
\* process at any moment.
NextInflight ==
    \/ Startup
    \/ fetchLogin
    \/ \E p \in pending, pw \in Passwords : handleLogin(p, ADMIN_USERNAME, pw)
    \/ \E p \in pending : afterSleep(p)
    \/ \E k \in Cookies \cup {MalformedCookie} : serveAdmin(k)
    \/ \E k \in Cookies \cup {MalformedCookie} : handleLogout(k)
    \/ \E k \in Cookies \cup {MalformedCookie} : fetchCreateVideo(k)
    \/ \E p \in pending, t \in FormTitles, sl \in FormSlugs : handleCreateVideo(p, t, sl)
    \/ shutdown

SpecInflight == InitContent /\ [][NextInflight]_vars

\* Add-asset forms with inline content and no URL: labels and supplied
\* filenames with an extension, without one, ending in a dot, blank, and with
\* characters sanitizeFilename removes.
DownloadForms ==
    LET Labels == { <<"n","o","t","e","s">>, <<".","e","n","v"," ","s","a","m","p","l","e">>,
                    <<"v","1",".">>, <<"R","E","A","D","M","E",":"," ","a","/","b">> }
        Filenames == { NoText, <<" ">>, <<"n","o","t","e","s",".","m","d">>,
                       <<"n","o","t","e","s",".">>, <<"a",".","?">>, <<"a",".","t","a","r",".","g","z">>,
                       <<"s","e","t","u","p">>, <<"s","e","t","u","p","\n">>, <<".">> }
    IN { [label |-> l, url |-> "", filename |-> f, content |-> <<"x", "\r", "\n", "y">>] :
           l \in Labels, f \in Filenames }

\* An asset with inline content is added to a seeded video and downloaded.
NextDownload ==
    \/ Startup
    \/ pending = {} /\ fetchLogin
    \/ \E p \in pending : handleLogin(p, ADMIN_USERNAME, OtherPassword)
    \/ \E k \in Cookies : pending = {} /\ fetchCreateAsset(1, k)
    \/ \E p \in pending, form \in DownloadForms : handleCreateAsset(p, form)
    \/ \E a \in {1, MaxAssetId} : pending = {} /\ handleAssetDownload(a)

SpecDownload == InitContent /\ [][NextDownload]_vars

\* ------------------------------------------------- functions on their own
\* A call of a function with the arguments args, not yet returned.
Call(fn, args) == Suspended(fn, NoCookie, args, "call", "")

\* One call in flight, outside any request: the tables are empty.
InitCall(calls) ==
    /\ phase = "call"
    /\ cfg = [port |-> Num(3000, 1), ttlDays |-> DefaultTtl, minLen |-> Num(12, 1)]
    /\ now = BootTime
    /\ admin_users = EmptyTable
    /\ sessions = EmptyTable
    /\ nextSid = 1
    /\ videos = EmptyTable /\ assets = EmptyTable
    /\ nextVideoId = 1 /\ nextAssetId = 1
    /\ \E c \in calls : pending = {c}
    /\ last = NoLast

\* The call returns value.
Return(p, value) ==
    /\ phase = "call"
    /\ p \in pending /\ p.phase = "call"
    /\ last.route = NoLast.route
    /\ last' = Response(p.route, value, NoSetCookie)
    /\ UNCHANGED <<phase, cfg, now, store, pending>>

HashPasswords == {DEFAULT_ADMIN_PASSWORD, OtherPassword, "hunter2"}

\* The calls passwordsMatch(q, h, s): h ranges over the texts the column
\* admin_users.password_hash can hold, the hash derivePasswordHash stored and
\* what is left of it after the row was edited or damaged.
PasswordsMatchCalls ==
    LET HashSalts == {OldSalt, "s2"}
        StoredHashTexts(password, salt) ==
            LET h == derivePasswordHash(password, salt).hash
            IN { h,
                 SubSeq(h, 1, Len(h) - 2),
                 SubSeq(h, 1, Len(h) - 1),
                 h \o <<"0", "0">>,
                 h \o <<"0">>,
                 h \o <<"z", "z">>,
                 [h EXCEPT ![2] = "g"],
                 <<"n", "o", "t", "-", "h", "e", "x">>,
                 <<>> }
    IN { Call("passwordsMatch", [password |-> q, hash |-> h, salt |-> s]) :
           q \in HashPasswords,
           h \in UNION {StoredHashTexts(p0, s0) : p0 \in HashPasswords, s0 \in HashSalts},
           s \in HashSalts }

callPasswordsMatch(p) ==
    /\ p.route = "passwordsMatch"
    /\ Return(p, passwordsMatch(p.arg.password, p.arg.hash, p.arg.salt))

SpecHash ==
    InitCall(PasswordsMatchCalls) /\ [][\E p \in pending : callPasswordsMatch(p)]_vars

\* The calls slugify(title) of handleCreateVideo: title is trimmed and not
\* empty; short titles, and titles about as long as the cap on the slug.
SlugifyCalls ==
    LET Pad(n) == [i \in 1..n |-> "a"]
        Tails == { <<>>, <<"b">>, <<" ", "b">>, <<"!">>, <<"!", "?">>, <<" ", "-", " ", "B">>,
                   <<"-", "b", "-", "c">>, <<"_", "9">>, <<" ", " ", "b", "c">>,
                   <<"H","e","l","l","o",","," ","W","o","r","l","d","!">>,
                   <<"!", "b", "!">> }
        Titles == { trim(Pad(n) \o t) :
                      n \in {0, 1} \cup ((SlugMaxLen - 3)..(SlugMaxLen + 1)), t \in Tails }
    IN { Call("slugify", title) : title \in Titles \ {NoText} }

callSlugify(p) ==
    /\ p.route = "slugify"
    /\ Return(p, slugify(p.arg, now))

SpecSlug == InitCall(SlugifyCalls) /\ [][\E p \in pending : callSlugify(p)]_vars

\* The calls authCookie(sid, maxAge, request) and clearAuthCookie(request):
\* NODE_ENV unset, production (in two spellings) or development; a request URL
\* with either protocol; X-Forwarded-Proto absent, http, https, in capitals,
\* padded, a list of two hops, or another protocol.
CookieCalls ==
    LET Requests ==
          [nodeEnv : {NoText, <<"p","r","o","d","u","c","t","i","o","n">>,
                      <<"P","r","o","d","u","c","t","i","o","n">>,
                      <<"d","e","v","e","l","o","p","m","e","n","t">>},
           scheme : {"http:", "https:"},
           forwardedProto : {NoText, <<"h","t","t","p">>, <<"h","t","t","p","s">>,
                             <<"H","T","T","P","S">>, <<" ","h","t","t","p"," ">>,
                             <<"h","t","t","p","s",","," ","h","t","t","p">>,
                             <<"w","s","s">>}]
    IN { Call(fn, r) : fn \in {"authCookie", "clearAuthCookie"}, r \in Requests }

callCookie(p) ==
    /\ p.route \in {"authCookie", "clearAuthCookie"}
    /\ Return(p, IF p.route = "authCookie" THEN authCookie(1, 86400, p.arg)
                 ELSE clearAuthCookie(p.arg))

SpecCookie == InitCall(CookieCalls) /\ [][\E p \in pending : callCookie(p)]_vars

\* ------------------------------------------------------------- properties
\* The cookie k names a session that exists and has not expired.
ValidSession(k) ==
    k \in DOMAIN sessions /\ ~(DateParse(sessions[k].expires_at) < now)

MutatingFormRoutes ==
    {"POST /admin/videos", "POST /admin/videos/{id}", "POST /admin/videos/{id}/assets"}

MutatingRoutes ==
    MutatingFormRoutes
        \cup {"POST /admin/videos/{id}/delete", "POST /admin/assets/{id}/delete"}

\* The step answers a request to route, or leaves its handler suspended.
StepOf(route) ==
    \/ last'.route = route
    \/ \E p \in pending' \ pending : p.route = route

\* The step is the arrival of a request to one of the five mutating routes
\* carrying the cookie k.
MutatingArrival(k) ==
    \/ StepOf("POST /admin/videos") /\ fetchCreateVideo(k)
    \/ StepOf("POST /admin/videos/{id}") /\ \E v \in TargetVideoIds : fetchUpdateVideo(v, k)
    \/ StepOf("POST /admin/videos/{id}/delete")
          /\ \E v \in TargetVideoIds : handleDeleteVideo(v, k)
    \/ StepOf("POST /admin/videos/{id}/assets")
          /\ \E v \in TargetVideoIds : fetchCreateAsset(v, k)
    \/ StepOf("POST /admin/assets/{id}/delete")
          /\ \E a \in TargetAssetIds : handleDeleteAsset(a, k)

\* The step applies the mutation of a request that carried the cookie k: a
\* delete, or a create or update going on after its form was read.
MutationBy(k) ==
    \/ \E v \in TargetVideoIds : handleDeleteVideo(v, k)
    \/ \E a \in TargetAssetIds : handleDeleteAsset(a, k)
    \/ \E p \in pending :
          /\ p.cookie = k /\ p.route \in MutatingFormRoutes
          /\ pending' = pending \ {p}

C2_PendingRotationRedirect ==
    [][\A k \in SessionIds :
          (/\ phase = "serving"
           /\ adminMustChangePassword(admin_users)
           /\ ValidSession(k)
           /\ MutatingArrival(k))
              => /\ last'.route \in MutatingRoutes
                 /\ last'.outcome = "/admin/password"
                 /\ content' = content
                 /\ pending' = pending]_vars

\* A live session was just redirected from a mutating route to /admin/password.
C2_Witness ==
    /\ last.route = "POST /admin/videos/{id}/assets"
    /\ last.outcome = "/admin/password"
    /\ adminMustChangePassword(admin_users)
    /\ \E k \in SessionIds : ValidSession(k)

\* The stored credential of the configured username is the default password.
StoredPasswordIs(password) ==
    /\ hasAdminUser(admin_users, ADMIN_USERNAME)
    /\ admin_users[ADMIN_USERNAME].password_hash
          = Pbkdf2Hex(password, admin_users[ADMIN_USERNAME].salt)

\* C3: once serving, whenever the stored admin password is the default
\* password the rotation flag is set.
C3_DefaultPasswordIsFlagged ==
    (phase = "serving" /\ StoredPasswordIs(DEFAULT_ADMIN_PASSWORD))
        => admin_users[ADMIN_USERNAME].must_change_password # 0

C5_PasswordChangeActivates ==
    [][/\ \A k \in SessionIds :
            (phase = "serving" /\ adminMustChangePassword(admin_users) /\ ValidSession(k))
                => /\ servePasswordChange(k) => last'.outcome = "page:password"
                   /\ fetchPasswordChange(k)
                        => AtForm("POST /admin/password", k, 0) \in pending'
       /\ \A p \in pending, c \in Passwords, n \in Passwords, salt \in Salts :
            (/\ StoredPasswordIs(c)
             /\ Len(n) * MIN_PASSWORD_LENGTH.d >= MIN_PASSWORD_LENGTH.n
             /\ handlePasswordChange(p, c, n, n, salt))
                => /\ admin_users'[ADMIN_USERNAME].password_hash = Pbkdf2Hex(n, salt)
                   /\ admin_users'[ADMIN_USERNAME].salt = salt
                   /\ admin_users'[ADMIN_USERNAME].must_change_password = 0
                   /\ last'.outcome = "/admin?flash=Password+updated"
                   /\ p.cookie \in DOMAIN sessions'
                   /\ withAuth(pruneSessionsSafely(sessions', now'), admin_users',
                               p.cookie, now', FALSE).pass]_vars

\* A live session in the pending-rotation state has had its POST
\* /admin/password dispatched: the handler is reading the form.
C5_Witness ==
    /\ adminMustChangePassword(admin_users)
    /\ \E p \in pending :
          /\ p.route = "POST /admin/password" /\ p.phase = "form"
          /\ ValidSession(p.cookie)

\* The step is the arrival of a request to a gated route carrying the cookie k.
GatedArrival(k) ==
    \/ MutatingArrival(k)
    \/ StepOf("GET /admin/password") /\ servePasswordChange(k)
    \/ StepOf("POST /admin/password") /\ fetchPasswordChange(k)
    \/ StepOf("POST /admin/logout") /\ handleLogout(k)

\* C6: a logout carrying the cookie of a live session removes that session; a
\* session id once issued and removed is never in the store again; and a
\* request carrying the cookie of a removed session is unauthenticated: GET
\* /admin shows the login page, every gated route redirects to the login page
\* and neither the credential nor the content changes.
C6_LogoutRevokes ==
    [][\A k \in SessionIds :
          /\ (ValidSession(k) /\ StepOf("POST /admin/logout") /\ handleLogout(k))
                => /\ k \notin DOMAIN sessions'
                   /\ last'.outcome = "/admin" /\ last'.setCookie = ClearCookie
          /\ (k < nextSid /\ k \notin DOMAIN sessions)
                => /\ k \notin DOMAIN sessions'
                   /\ (StepOf("GET /admin") /\ serveAdmin(k))
                        => last'.outcome = "page:login"
                   /\ GatedArrival(k)
                        => /\ last'.outcome = "/admin?error=Please+login"
                           /\ pending' = pending
                           /\ admin_users' = admin_users
                           /\ content' = content]_vars

\* A logout has just removed a session that a login of this run had issued.
C6_Witness ==
    /\ last.route = "POST /admin/logout"
    /\ last.outcome = "/admin"
    /\ last.setCookie = ClearCookie
    /\ \E k \in SessionIds :
          /\ k < nextSid /\ k \notin DOMAIN sessions
          /\ \A tbl \in InitialSessionTables : k \notin DOMAIN tbl

\* The stored expiry of session id is earlier than the current time.
Expired(id) == DateParse(sessions[id].expires_at) < now

\* C7: for every session in the store whose expiry is earlier than the
\* current time, the lookup returns absent and removes exactly that record,
\* and a second lookup returns absent and changes nothing; and a request
\* carrying the cookie of such a session is answered as unauthenticated.
C7_LazyExpiry ==
    [][\A id \in DOMAIN sessions :
          Expired(id)
              => LET first == findSession(sessions, id, now)
                     second == findSession(first.tbl, id, now)
                 IN /\ ~first.found
                    /\ first.tbl = Remove(sessions, id)
                    /\ ~second.found
                    /\ second.tbl = first.tbl
                    /\ serveAdmin(id)
                         => last'.outcome = "page:login" /\ id \notin DOMAIN sessions'
                    /\ handleLogout(id)
                         => last'.outcome = "/admin?error=Please+login"]_vars

\* GET /admin has just answered with the login page while the store, after
\* the sweep, still held a session past its expiry for the lookup to remove.
C7_Witness ==
    /\ last.route = "GET /admin"
    /\ last.outcome = "page:login"
    /\ \E id \in DOMAIN sessions :
          Expired(id) /\ id \in DOMAIN pruneSessionsSafely(sessions, now)

\* C8: in every reachable state, the sweep leaves no session whose expiry is
\* earlier than the current time.
C8_SweepRemovesExpired ==
    phase = "serving" => \A id \in DOMAIN pruneSessions(sessions, now) : ~Expired(id)

\* SESSION_TTL_DAYS is a number greater than zero.
PositiveTtl ==
    \/ SESSION_TTL_DAYS.k = "inf"
    \/ SESSION_TTL_DAYS.k = "num" /\ SESSION_TTL_DAYS.n > 0 /\ SESSION_TTL_DAYS.d > 0

\* C9: the server serves only with a positive TTL, and the session a login
\* creates expires exactly the TTL after the time of the login, which is
\* strictly later than that time.
C9_ExpiryIsCreationPlusTtl ==
    [][/\ phase' = "serving" => PositiveTtl
       /\ \A p \in pending, pw \in Passwords :
            (/\ StoredPasswordIs(pw)
             /\ handleLogin(p, ADMIN_USERNAME, pw)
             /\ nextSid \in DOMAIN sessions')
                => LET expiry == DateParse(sessions'[nextSid].expires_at)
                   IN /\ expiry > now
                      /\ expiry * SESSION_TTL_DAYS.d
                            = now * SESSION_TTL_DAYS.d
                                + SESSION_TTL_DAYS.n * TicksPerDay]_vars

\* C10: when startup goes on to serve, a credential of the configured
\* username exists; created from the default password with the flag set if
\* there was none; with the flag set and hash and salt as they were if it
\* matched the default password with the flag clear; and exactly as it was if
\* it did not match the default password.
C10_BootstrapCredential ==
    [][(phase = "boot" /\ phase' = "serving")
          => /\ hasAdminUser(admin_users', ADMIN_USERNAME)
             /\ ~hasAdminUser(admin_users, ADMIN_USERNAME)
                  => \E salt \in Salts :
                        admin_users'[ADMIN_USERNAME]
                            = AdminRow(Pbkdf2Hex(DEFAULT_ADMIN_PASSWORD, salt), salt, 1)
             /\ (/\ StoredPasswordIs(DEFAULT_ADMIN_PASSWORD)
                 /\ admin_users[ADMIN_USERNAME].must_change_password = 0)
                  => admin_users'[ADMIN_USERNAME]
                        = [admin_users[ADMIN_USERNAME] EXCEPT !.must_change_password = 1]
             /\ (/\ hasAdminUser(admin_users, ADMIN_USERNAME)
                 /\ ~StoredPasswordIs(DEFAULT_ADMIN_PASSWORD))
                  => admin_users'[ADMIN_USERNAME] = admin_users[ADMIN_USERNAME]]_vars

\* Startup has just set the flag of a stored default credential, keeping the
\* salt a previous run gave it.
C10_Witness ==
    /\ last.route = "startup"
    /\ last.outcome = "enforced"
    /\ StoredPasswordIs(DEFAULT_ADMIN_PASSWORD)
    /\ admin_users[ADMIN_USERNAME].salt = OldSalt
    /\ admin_users[ADMIN_USERNAME].must_change_password = 1

\* C11: once serving, the admin_users table holds exactly one row and its
\* username is the configured one, whatever rows a previous run left behind
\* and whatever logins, password changes and logouts have been served; and no
\* step of the serving process changes the set of usernames.
C11_SingleAdminIdentity ==
    [][/\ phase' = "serving" => DOMAIN admin_users' = {ADMIN_USERNAME}
       /\ phase = "serving" => DOMAIN admin_users' = DOMAIN admin_users]_vars

\* A password change was stored after a start-up; the one row is the admin's.
C11_Witness ==
    /\ last.route = "POST /admin/password"
    /\ last.outcome = "/admin?flash=Password+updated"
    /\ DOMAIN admin_users = {ADMIN_USERNAME}
    /\ admin_users[ADMIN_USERNAME].salt \in Salts

\* C12: passwordsMatch(q, h, s) is true when h is the hash derivePasswordHash
\* gives for q and s, false when h is the hash it gives for another password
\* and s, and false whenever h is malformed (a character that is not a hex
\* digit) or of a length other than that of a derived hash.
C12_VerifyAlgebra ==
    LET MalformedHash(hash) ==
            \/ \E i \in DOMAIN hash : HexValue(hash[i]) < 0
            \/ Len(hash) # Len(derivePasswordHash(DEFAULT_ADMIN_PASSWORD, OldSalt).hash)
    IN \A p \in pending :
          (p.route = "passwordsMatch" /\ last.route = "passwordsMatch")
              => /\ \A p0 \in HashPasswords :
                      p.arg.hash = derivePasswordHash(p0, p.arg.salt).hash
                          => last.outcome = (p.arg.password = p0)
                 /\ MalformedHash(p.arg.hash) => last.outcome = FALSE

\* C13: no two stored videos share a slug; the slug of a stored video never
\* changes, whatever update is served; and a create whose slug, given in the
\* form or derived from the title, is that of a stored video is answered with
\* the error redirect and leaves the videos and assets tables as they were.
C13_SlugUnique ==
    [][/\ \A v, w \in DOMAIN videos' : v # w => videos'[v].slug # videos'[w].slug
       /\ \A v \in DOMAIN videos \cap DOMAIN videos' : videos'[v].slug = videos[v].slug
       /\ StepOf("POST /admin/videos")
            => \A p \in pending, t \in ContentInputs.titles, sl \in ContentInputs.slugs :
                  LET slug == IF trim(sl) # NoText THEN trim(sl) ELSE slugify(trim(t), now)
                  IN (/\ trim(t) # NoText
                      /\ \E v \in DOMAIN videos : videos[v].slug = slug
                      /\ handleCreateVideo(p, t, sl))
                         => /\ last'.outcome = "/admin?error=Failed+to+create+video"
                            /\ videos' = videos
                            /\ assets' = assets]_vars

\* A create was just refused: its slug is that of a seeded video.
C13_Witness ==
    /\ last.route = "POST /admin/videos"
    /\ last.outcome = "/admin?error=Failed+to+create+video"
    /\ DOMAIN videos = 1..Len(defaultSeed)

\* C14: the slug derived from a non-empty title that holds a letter or a
\* digit is not empty, at most 64 characters long, made of a-z, 0-9 and '-'
\* only, and neither begins nor ends with '-'; "Hello, World!" gives
\* "hello-world"; a title with no letter and no digit gives the fallback made
\* from the clock.
C14_SlugShape ==
    \A p \in pending :
        (p.route = "slugify" /\ last.route = "slugify")
            => LET slug == last.outcome
               IN /\ p.arg = <<"H","e","l","l","o",","," ","W","o","r","l","d","!">>
                        => slug = <<"h","e","l","l","o","-","w","o","r","l","d">>
                  /\ IF \E i \in DOMAIN p.arg : IsSlugChar(toLowerCaseChar(p.arg[i]))
                     THEN /\ slug # <<>>
                          /\ Len(slug) <= SlugMaxLen
                          /\ \A i \in DOMAIN slug : IsSlugChar(slug[i]) \/ slug[i] = "-"
                          /\ slug[1] # "-"
                          /\ slug[Len(slug)] # "-"
                     ELSE slug = SlugFallback(now)

\* C15: every stored video has a title that is not empty; a create or an
\* update whose title is missing, empty or made of whitespace only is answered
\* with the redirect to /admin?error=Title+is+required and leaves the videos
\* table as it was.
C15_TitleNonEmpty ==
    [][/\ \A v \in DOMAIN videos' : Len(trim(videos'[v].title)) > 0
       /\ StepOf("POST /admin/videos")
            => \A p \in pending, t \in ContentInputs.titles, sl \in ContentInputs.slugs :
                  (trim(t) = NoText /\ handleCreateVideo(p, t, sl))
                      => /\ last'.outcome = "/admin?error=Title+is+required"
                         /\ videos' = videos
       /\ StepOf("POST /admin/videos/{id}")
            => \A p \in pending, t \in ContentInputs.updateTitles :
                  (trim(t) = NoText /\ handleUpdateVideo(p, t))
                      => /\ last'.outcome = "/admin?error=Title+is+required"
                         /\ videos' = videos]_vars

\* An update with a blank title was just refused, after one that was stored.
C15_Witness ==
    /\ last.route = "POST /admin/videos/{id}"
    /\ last.outcome = "/admin?error=Title+is+required"
    /\ \E v \in DOMAIN videos : videos[v].title = <<"N", "e", "w">>

\* C16: an update, with a title that is not blank, of a video id that is not
\* in the videos table is not answered as a successful save, and leaves the
\* videos and assets tables as they were.
C16_UpdateMissingFails ==
    [][StepOf("POST /admin/videos/{id}")
          => \A p \in pending, t \in ContentInputs.updateTitles :
                (/\ trim(t) # NoText
                 /\ p.arg \notin DOMAIN videos
                 /\ handleUpdateVideo(p, t))
                    => /\ last'.outcome # "/admin?flash=Changes+saved"
                       /\ content' = content]_vars

\* C17: every stored asset belongs to a stored video; a delete of a video that
\* gets past the gate removes the video and exactly the assets that belonged to
\* it, none of which is then found by id or listed under any video; and an
\* add-asset request for an id that is not in the videos table stores nothing.
C17_AssetsBelongToVideos ==
    [][/\ \A a \in DOMAIN assets' : assets'[a].video_id \in DOMAIN videos'
       /\ StepOf("POST /admin/videos/{id}/delete")
            => \A v \in ContentInputs.videoIds, k \in Cookies :
                  (handleDeleteVideo(v, k) /\ last'.outcome = "/admin?flash=Video+deleted")
                      => LET owned == {a \in DOMAIN assets : assets[a].video_id = v}
                             listed == listVideosWithAssets(videos', assets')
                         IN /\ v \notin DOMAIN videos'
                            /\ DOMAIN assets' = DOMAIN assets \ owned
                            /\ \A a \in DOMAIN assets' : assets'[a] = assets[a]
                            /\ \A a \in owned : getAssetById(assets', a) = NoAsset
                            /\ owned # {}
                                  => \A n \in DOMAIN listed :
                                        \A m \in DOMAIN listed[n].assets :
                                            listed[n].assets[m].id \notin owned
       /\ StepOf("POST /admin/videos/{id}/assets")
            => \A p \in pending, form \in ContentInputs.assetForms :
                  (p.arg \notin DOMAIN videos /\ handleCreateAsset(p, form))
                      => assets' = assets]_vars

\* A seeded video was just deleted: its assets are gone, the others are kept.
C17_Witness ==
    /\ last.route = "POST /admin/videos/{id}/delete"
    /\ last.outcome = "/admin?flash=Video+deleted"
    /\ 1 \notin DOMAIN videos
    /\ {1, 2} \cap DOMAIN assets = {}
    /\ 3 \in DOMAIN assets

\* C18: every stored asset has a label that is not blank and carries a URL or
\* content that is not blank; an add-asset request whose label is blank, or
\* that has neither a URL nor content other than whitespace, is answered with
\* a validation redirect and leaves the assets table as it was.
C18_AssetHasLabelAndPayload ==
    [][/\ \A a \in DOMAIN assets' :
            /\ Len(trim(assets'[a].label)) > 0
            /\ assets'[a].url # "" \/ Len(trim(assets'[a].content)) > 0
       /\ StepOf("POST /admin/videos/{id}/assets")
            => \A p \in pending, form \in ContentInputs.assetForms :
                  (/\ \/ trim(form.label) = NoText
                      \/ form.url = "" /\ trim(form.content) = NoText
                   /\ handleCreateAsset(p, form))
                      => /\ last'.outcome \in {"/admin?error=Asset+label+is+required",
                                                "/admin?error=Provide+content+or+a+URL"}
                         /\ assets' = assets
                         /\ nextAssetId' = nextAssetId]_vars

\* A request with neither URL nor content was just refused, after an asset
\* with inline content was stored through the form.
C18_Witness ==
    /\ last.route = "POST /admin/videos/{id}/assets"
    /\ last.outcome = "/admin?error=Provide+content+or+a+URL"
    /\ MaxAssetId \in DOMAIN assets
    /\ assets[MaxAssetId].content # NoText

\* C19: a download of an asset created with inline content and no URL returns
\* the stored content under a filename that ends in an extension that is not
\* empty (a '.' that is followed by at least one character and by no other
\* '.'); and the filename stored for such an asset ends in ".txt" when the
\* supplied filename, or the label used in its place, holds no '.'.
C19_DownloadHasExtension ==
    [][/\ (last'.route = "GET /downloads/assets/{id}" /\ last'.outcome = "download")
            => LET f == last'.body.filename
               IN /\ last'.body.content = assets[MaxAssetId].content
                  /\ includes(f, ".")
                  /\ f[Len(f)] # "."
       /\ StepOf("POST /admin/videos/{id}/assets")
            => \A p \in pending, form \in DownloadForms :
                  (handleCreateAsset(p, form) /\ last'.outcome = "/admin?flash=Asset+added")
                      => LET base == IF Len(trim(form.filename)) > 0 THEN form.filename
                                     ELSE trim(form.label)
                             f == assets'[nextAssetId].filename
                         IN ~includes(base, ".")
                               => /\ Len(f) > Len(DotTxt)
                                  /\ SubSeq(f, Len(f) - Len(DotTxt) + 1, Len(f)) = DotTxt]_vars

\* C20: the body of a response to GET /api/videos holds no content field, and
\* it is the body the same request gets from any store that differs from the
\* one it was served from only in the inline content of assets, of one of them
\* or of all.
C20_ApiExcludesContent ==
    LET Contents == {NoText, <<"s", "e", "c", "r", "e", "t">>}
        api(atbl) == serializeVideosForApi(listVideosWithAssets(videos, atbl))
    IN last.route = "GET /api/videos"
          => /\ \A n \in DOMAIN last.body :
                  \A m \in DOMAIN last.body[n].assets :
                      "content" \notin DOMAIN last.body[n].assets[m]
             /\ \A c \in Contents :
                  /\ api([a \in DOMAIN assets |-> [assets[a] EXCEPT !.content = c]]) = last.body
                  /\ \A a \in DOMAIN assets :
                        api([assets EXCEPT ![a].content = c]) = last.body

\* The list was just served from a store that holds an asset with inline content.
C20_Witness ==
    /\ last.route = "GET /api/videos"
    /\ \E a \in DOMAIN assets : assets[a].content # NoText
    /\ \E n \in DOMAIN last.body : \E m \in DOMAIN last.body[n].assets :
          last.body[n].assets[m].id = MaxAssetId

\* C21: when a termination signal stops the process, every request in flight
\* at that moment has been completed: once the process has stopped, no handler
\* is left suspended at an await with its response unsent and its store write
\* unapplied.
C21_ShutdownDrains == phase = "stopped" => pending = {}

\* C22: a failure raised while a request is handled (a malformed cookie
\* included) is caught in the handler and answered with a redirect or a JSON
\* error: no request is answered by Bun.serve's error() fallback, the 500
\* "Internal Server Error" a failure that left its handler is turned into.
C22_FailuresCaughtLocally == phase = "serving" => last.outcome # "500"

\* C23: whenever NODE_ENV is production, the cookie authCookie builds for a
\* login and the one clearAuthCookie builds for a logout carry the Secure
\* attribute, whatever the protocol of the request URL (http or https) and
\* whatever the X-Forwarded-Proto header (absent, http or https).
C23_SecureInProduction ==
    last.route \in {"authCookie", "clearAuthCookie"} =>
       \A p \in pending :
          ( /\ isProduction(p.arg.nodeEnv)
            /\ p.arg.scheme \in {"http:", "https:"}
            /\ p.arg.forwardedProto \in {NoText, <<"h","t","t","p">>, <<"h","t","t","p","s">>} )
          => last.outcome.secure

\* C24: a login with both fields present that fails, because the username is
\* not the configured one or because the password is not the stored one, is
\* suspended at the same delay with the same answer decided, whichever of the
\* two was wrong, and nothing else changes; when the delay ends the answer is
\* the redirect to /admin?error=Invalid+credentials without a cookie, and no
\* session has been created.
C24_FailedLoginsAlike ==
    [][/\ \A p \in pending, u \in LoginUsernames, pw \in PasswordInputs :
            ( /\ u # "" /\ pw # ""
              /\ u # ADMIN_USERNAME \/ ~StoredPasswordIs(pw)
              /\ handleLogin(p, u, pw) )
            => /\ pending' = (pending \ {p})
                                \cup {[p EXCEPT !.phase = "sleep",
                                                !.outcome = "/admin?error=Invalid+credentials"]}
               /\ last' = NoLast
               /\ UNCHANGED store
       /\ \A p \in pending :
            (p.route = "POST /admin/login" /\ afterSleep(p))
            => /\ last' = Response(p.route, "/admin?error=Invalid+credentials", NoSetCookie)
               /\ pending' = pending \ {p}
               /\ UNCHANGED store]_vars

\* A failed login was answered after its delay while an administrator exists:
\* a wrong password and a wrong username both lead here.
C24_Witness ==
    /\ last = Response("POST /admin/login", "/admin?error=Invalid+credentials", NoSetCookie)
    /\ hasAdminUser(admin_users, ADMIN_USERNAME)
    /\ pending = {}

\* C25: a delete request that passes the gate is answered as a success
\* whether or not its id is stored; when the id is not stored the tables are
\* unchanged, and deleting the same id again changes nothing more. The same
\* holds for a video (with the assets it owns), an asset and a session id.
C25_DeleteIdempotent ==
    [][/\ \A v \in ContentInputs.videoIds, k \in SessionIds :
            ( /\ ValidSession(k) /\ ~adminMustChangePassword(admin_users)
              /\ StepOf("POST /admin/videos/{id}/delete")
              /\ handleDeleteVideo(v, k) )
            => /\ last'.outcome = "/admin?flash=Video+deleted"
               /\ v \notin DOMAIN videos => UNCHANGED <<videos, assets>>
               /\ deleteVideo(videos', assets', v) = [videos |-> videos', assets |-> assets']
       /\ \A a \in ContentInputs.assetIds, k \in SessionIds :
            ( /\ ValidSession(k) /\ ~adminMustChangePassword(admin_users)
              /\ StepOf("POST /admin/assets/{id}/delete")
              /\ handleDeleteAsset(a, k) )
            => /\ last'.outcome = "/admin?flash=Asset+removed"
               /\ a \notin DOMAIN assets => UNCHANGED <<videos, assets>>
               /\ deleteAsset(assets', a) = assets'
       /\ \A id \in SessionIds :
            /\ id \notin DOMAIN sessions => deleteSession(sessions, id) = sessions
            /\ deleteSession(deleteSession(sessions, id), id) = deleteSession(sessions, id)]_vars

\* The delete of an asset id that was never stored was answered as a success:
\* the first asset is still there, so the request named the other id.
C25_Witness ==
    /\ last.route = "POST /admin/assets/{id}/delete"
    /\ last.outcome = "/admin?flash=Asset+removed"
    /\ 1 \in DOMAIN assets
    /\ nextAssetId = MaxAssetId

\* C26: a step adds a row to the session table, or answers with a session
\* cookie, only as a login whose username is the configured one and whose
\* password is the stored one; it then adds exactly the session of the cookie
\* it sets. A login with a missing field, another username or another
\* password leaves the session table as it is and sets no cookie.
C26_SessionsOnlyByLogin ==
    [][/\ (DOMAIN sessions' \ DOMAIN sessions # {} \/ last'.setCookie \in SessionIds)
            => \E p \in pending, pw \in Passwords :
                  /\ p.route = "POST /admin/login"
                  /\ StoredPasswordIs(pw)
                  /\ handleLogin(p, ADMIN_USERNAME, pw)
                  /\ DOMAIN sessions' \ DOMAIN sessions = {last'.setCookie}
       /\ \A p \in pending, u \in LoginUsernames, pw \in PasswordInputs :
            ( /\ u = "" \/ pw = "" \/ u # ADMIN_USERNAME \/ ~StoredPasswordIs(pw)
              /\ handleLogin(p, u, pw) )
            => /\ sessions' = sessions
               /\ last'.setCookie = NoSetCookie]_vars

\* A login was answered with the cookie of the session it has just created.
C26_Witness ==
    /\ last.route = "POST /admin/login"
    /\ last.setCookie = nextSid - 1
    /\ last.setCookie \in DOMAIN sessions

\* C27: a stored session whose expiry is later than the current time is kept
\* by the sweep and by the lookup, authenticates its holder, and is in the
\* store after every step, with its row unchanged, unless the step is a
\* logout carrying its own id; and the sessions a logout takes out of the
\* store are the one its cookie names and sessions past their expiry.
C27_ValidSessionKept ==
    [][/\ \A id \in DOMAIN sessions :
            (phase = "serving" /\ DateParse(sessions[id].expires_at) > now)
            => /\ id \in DOMAIN pruneSessionsSafely(sessions, now)
               /\ findSession(sessions, id, now) = [found |-> TRUE, tbl |-> sessions]
               /\ isAuthenticated(Swept, id, now).ok
               /\ serveAdmin(id) => last'.outcome # "page:login"
               /\ id \in DOMAIN sessions' => sessions'[id] = sessions[id]
               /\ id \notin DOMAIN sessions'
                    => handleLogout(id) /\ last'.setCookie = ClearCookie
       /\ \A k \in Cookies :
            (StepOf("POST /admin/logout") /\ handleLogout(k))
            => \A id \in DOMAIN sessions \ DOMAIN sessions' : id = k \/ Expired(id)]_vars

\* After the clock has advanced, a logout has removed its own session and a
\* session of another client, not yet expired, is still in the store.
C27_Witness ==
    /\ last.route = "POST /admin/logout"
    /\ last.setCookie = ClearCookie
    /\ now > BootTime
    /\ \E id \in DOMAIN sessions : DateParse(sessions[id].expires_at) > now

\* C28: with requests interleaved at their awaits, a step of a serving
\* process changes the videos or assets table only as the write of a gated
\* request whose session, the one that passed the gate, is still stored and
\* unexpired at that step, with the rotation flag still clear: a logout of
\* the session between the gate and the write prevents the write.
C28_GateHoldsAtWrite ==
    [][(phase = "serving" /\ content' # content)
          => \E p \in pending :
                /\ p.route \in MutatingFormRoutes
                /\ pending' = pending \ {p}
                /\ ValidSession(p.cookie)
                /\ ~adminMustChangePassword(admin_users)]_vars

\* C29: a password change with a missing field, a new password that differs
\* from its confirmation or is shorter than the minimum, or a current password
\* that is not the stored one is not answered as a success and leaves the
\* admin_users table (hash, salt, rotation flag) unchanged; and no step of a
\* serving process takes the rotation flag from clear to set.
C29_FailedChangeKeepsCredential ==
    [][/\ \A p \in pending, c \in PasswordInputs, n \in PasswordInputs,
             f \in PasswordInputs, salt \in Salts :
            ( /\ \/ c = "" \/ n = "" \/ f = ""
                 \/ n # f
                 \/ Len(n) * MIN_PASSWORD_LENGTH.d < MIN_PASSWORD_LENGTH.n
                 \/ ~StoredPasswordIs(c)
              /\ handlePasswordChange(p, c, n, f, salt) )
            => /\ UNCHANGED admin_users
               /\ last'.outcome # "/admin?flash=Password+updated"
       /\ ( /\ phase = "serving"
            /\ hasAdminUser(admin_users, ADMIN_USERNAME)
            /\ ~adminMustChangePassword(admin_users) )
            => /\ hasAdminUser(admin_users', ADMIN_USERNAME)
               /\ ~adminMustChangePassword(admin_users')]_vars

\* A password change was refused for a new password that is too short while
\* the rotation is pending: it is still pending.
C29_Witness ==
    /\ last.route = "POST /admin/password"
    /\ last.outcome = "/admin/password?error=Password+must+be+at+least"
    /\ adminMustChangePassword(admin_users)

\* C30: a password change that succeeds leaves the session table as it was:
\* every session that was in the store and unexpired before it, that of the
\* request and those of other clients, is unexpired after it and passes the
\* gate of the mutating routes now that the rotation flag is clear.
C30_PasswordChangeKeepsSessions ==
    [][\A p \in pending, c \in Passwords, n \in Passwords, salt \in Salts :
          ( /\ StoredPasswordIs(c)
            /\ Len(n) * MIN_PASSWORD_LENGTH.d >= MIN_PASSWORD_LENGTH.n
            /\ handlePasswordChange(p, c, n, n, salt) )
          => /\ last'.outcome = "/admin?flash=Password+updated"
             /\ sessions' = sessions
             /\ \A k \in SessionIds :
                   ValidSession(k)
                   => /\ k \in DOMAIN sessions'
                      /\ ~(DateParse(sessions'[k].expires_at) < now')
                      /\ withAuth(pruneSessionsSafely(sessions', now'), admin_users',
                                  k, now', FALSE).pass]_vars

\* The password was changed while two clients held a session: both sessions
\* are in the store and the rotation flag is clear.
C30_Witness ==
    /\ last.route = "POST /admin/password"
    /\ last.outcome = "/admin?flash=Password+updated"
    /\ \E k1 \in SessionIds, k2 \in SessionIds :
          k1 # k2 /\ ValidSession(k1) /\ ValidSession(k2)
    /\ ~adminMustChangePassword(admin_users)

====
